---- MODULE Spec2Model ----
(***************************************************************************)
(* Credential lifecycle of the microsoft-graph skill scripts: check-auth,  *)
(* check-auth-complete, auth, emails and calendar, running as independent  *)
(* OS processes over one shared credential file and one wall clock.        *)
(***************************************************************************)
EXTENDS Integers, Sequences, FiniteSets, TLC

\* ------------------------------------------------------------------ bounds
\* number of clock ticks explored
MaxTicks == 4
\* milliseconds the wall clock advances per tick
TickMs == 500
\* number of script invocations explored in one behaviour
MaxInvocations == 2

\* ------------------------------------------------------- program constants
MsPerSecond == 1000
DefaultLifetimeMs == 3600000
SecondsPerMinute == 60
DEFAULT_CLIENT_ID == "14d82eec-204b-4c2f-b7e8-296a70dab67e"
DEFAULT_TENANT == "common"

\* JavaScript undefined / null for string-valued fields
None == "undefined"
\* optional non-string values are sequences of length 0 or 1
Absent == <<>>
Some(x) == <<x>>

Procs == {"p1", "p2"}
Profiles == {"default", "work"}

VARIABLES
  started,      \* invocations started so far
  now,          \* wall clock, milliseconds
  store,        \* credentials.json, section "microsoft-graph": profile -> Credential
  deleted,      \* profiles reported deleted and not authenticated again since
  needsAuth,    \* profiles whose expired credential was reported as needing
                \* interactive authentication, and not authenticated or deleted since
  signin,       \* identity provider: state of the device code issued per profile
  pc,           \* position of each process
  script,       \* which script the process runs
  values,       \* parsed command line of the process
  credential,   \* local `credential` (Absent or Some(record))
  result,       \* local `result` of the refresh-token grant
  newCredential,\* local `newCredential`
  doc,          \* whole document read by a read-modify-write store call
  auth,         \* local `auth` returned by ensureAuth
  out,          \* what the process has printed
  exitCode,     \* process exit code, -1 while running
  confirmed,    \* the user had finished sign-in when the invocation started
  grants,       \* refresh-token grants the process has sent to the provider
  requests,     \* Graph API requests the process has sent
  httpResponse, \* local `response` of graphRequest: the answer to the last request
  baseDate,     \* parseDate: the `baseDate` argument
  input,        \* parseDate: the `input` argument, as a sequence of characters
  parsed,       \* parseDate: the Date returned (Absent before the call)
  nowDate,      \* calendar main: `now`, the clock reading as a Date
  rangeArgs,    \* calendar main: the command and the values of --start and --end
  startDate,    \* calendar main: `startDate` (Absent before it is set)
  endDate       \* calendar main: `endDate` (Absent before it is set)

\* the credential file and what has been reported about it
disk == <<store, deleted, needsAuth>>
\* the date range of a calendar invocation
range == <<nowDate, rangeArgs, startDate, endDate>>
\* a call of calendar's parseDate, and calendar's date range
dates == <<baseDate, input, parsed, range>>
\* the command line of an invocation, fixed when it starts
args == <<script, values, confirmed>>
\* what an invocation prints and how it exits
console == <<out, exitCode>>
\* the traffic an invocation has caused
traffic == <<grants, requests, httpResponse>>
\* the variables of a refresh in progress
refresh == <<result, newCredential, doc>>

vars == <<started, dates, now, disk, signin, pc, args, credential, refresh, auth,
          console, traffic>>

\* ------------------------------------------------------------------ dates
\* Date.prototype.toISOString keeps millisecond precision: seconds + millis
ToISOString(ms) == <<ms \div MsPerSecond, ms % MsPerSecond>>
\* new Date(isoString).getTime()
ParseISO(iso) == iso[1] * MsPerSecond + iso[2]

Max(a, b) == IF a >= b THEN a ELSE b

\* ------------------------------------------------------ lib/credentials.ts
isTokenExpired(cred, clock) == clock >= ParseISO(cred.expiresAt)

getCredential(file, profile) ==
  IF profile \in DOMAIN file THEN Some(file[profile]) ELSE Absent

\* an update applied to the file as it is now, not to the document read before
WithCredentialInPlace(file, profile, cred) ==
  [q \in (DOMAIN store) \cup {profile} |-> IF q = profile THEN cred ELSE store[q]]

\* a set call that writes the document back as it was read
WithCredentialDropped(file, profile, cred) == file

\* a set call that writes a document holding the one profile only
WithCredentialOnly(file, profile, cred) == [q \in {profile} |-> cred]

\* the document with `profile` set to `cred`
WithCredential(file, profile, cred) ==
  [q \in (DOMAIN file) \cup {profile} |-> IF q = profile THEN cred ELSE file[q]]

\* JavaScript truthiness of an optional string
Truthy(s) == s # None /\ s # ""

\* ------------------------------------------------------- identity provider
\* what the refresh-token grant can answer at time `clock`
ThrownErrors ==
  { [isError |-> TRUE, message |-> "invalid_grant"],
    [isError |-> TRUE, message |-> ""],
    [isError |-> FALSE, message |-> None] }

\* which optional members a grant result carries: refresh token, account, scopes
GrantShapes ==
  { <<"rt1", "bob", <<"User.Read", "Mail.Read">> >>,
    <<None, None, <<>> >>,
    <<None, "bob", <<>> >>,
    <<"rt1", None, <<"User.Read", "Mail.Read">> >> }

GrantResults(clock) ==
  { [ accessToken |-> "at1",
      refreshToken |-> g[1],
      expiresOn |-> e,
      account |-> g[2],
      scopes |-> g[3] ] :
    g \in GrantShapes,
    e \in {Absent, Some(clock + TickMs)} }

\* ------------------------------------------------------------ initial store
InitCredential(profile, refreshToken) ==
  [ accessToken |-> "at0",
    refreshToken |-> refreshToken,
    expiresAt |-> ToISOString(2 * TickMs),
    account |-> "alice",
    scopes |-> <<"Mail.Read">>,
    clientId |-> IF profile = "work" THEN "app1" ELSE None,
    tenantId |-> IF profile = "work" THEN "tenant1" ELSE None ]

\* stores left behind by earlier authentications
InitStores ==
  { [q \in S |-> InitCredential(q, IF q \in R THEN "rt0" ELSE None)] :
      S \in SUBSET Profiles, R \in SUBSET {"default"} }

NoValues == [profile |-> None]

\* everything but the clock
InitProcesses ==
  /\ started = 0
  /\ store \in InitStores
  /\ deleted = {}
  /\ needsAuth = {}
  /\ signin = [q \in Profiles |-> "none"]
  /\ pc = [p \in Procs |-> "idle"]
  /\ script = [p \in Procs |-> None]
  /\ values = [p \in Procs |-> NoValues]
  /\ credential = [p \in Procs |-> Absent]
  /\ result = [p \in Procs |-> Absent]
  /\ newCredential = [p \in Procs |-> Absent]
  /\ doc = [p \in Procs |-> Absent]
  /\ auth = [p \in Procs |-> Absent]
  /\ out = [p \in Procs |-> <<>>]
  /\ exitCode = [p \in Procs |-> -1]
  /\ confirmed = [p \in Procs |-> FALSE]
  /\ grants = [p \in Procs |-> <<>>]
  /\ requests = [p \in Procs |-> 0]
  /\ httpResponse = [p \in Procs |-> Absent]

\* no date range is looked at
NoRange ==
  /\ nowDate = Absent
  /\ rangeArgs = [command |-> None, start |-> <<>>, end |-> <<>>]
  /\ startDate = Absent
  /\ endDate = Absent

\* no call of parseDate and no date range is looked at
NoDates ==
  /\ baseDate = Absent
  /\ input = <<>>
  /\ parsed = Absent
  /\ NoRange

Init ==
  /\ now = 0
  /\ InitProcesses
  /\ NoDates

\* the wall clock advances
Tick ==
  /\ now + TickMs <= MaxTicks * TickMs
  /\ now' = now + TickMs
  /\ UNCHANGED <<started, dates, disk, signin, pc, args, credential, refresh, auth,
                 console, traffic>>

\* a finished process slot is reused for the next invocation
Reset(p) ==
  /\ pc[p] = "done"
  /\ pc' = [pc EXCEPT ![p] = "idle"]
  /\ script' = [script EXCEPT ![p] = None]
  /\ values' = [values EXCEPT ![p] = NoValues]
  /\ confirmed' = [confirmed EXCEPT ![p] = FALSE]
  /\ credential' = [credential EXCEPT ![p] = Absent]
  /\ result' = [result EXCEPT ![p] = Absent]
  /\ newCredential' = [newCredential EXCEPT ![p] = Absent]
  /\ doc' = [doc EXCEPT ![p] = Absent]
  /\ auth' = [auth EXCEPT ![p] = Absent]
  /\ out' = [out EXCEPT ![p] = <<>>]
  /\ exitCode' = [exitCode EXCEPT ![p] = -1]
  /\ grants' = [grants EXCEPT ![p] = <<>>]
  /\ requests' = [requests EXCEPT ![p] = 0]
  /\ httpResponse' = [httpResponse EXCEPT ![p] = Absent]
  /\ UNCHANGED <<started, dates, now, disk, signin>>

\* a script is launched with the given command line
Launch(p, name, vals) ==
  /\ pc[p] = "idle"
  /\ started < MaxInvocations
  /\ started' = started + 1
  /\ script' = [script EXCEPT ![p] = name]
  /\ values' = [values EXCEPT ![p] = vals]
  /\ confirmed' = [confirmed EXCEPT ![p] = (signin[vals.profile] = "completed")]
  /\ UNCHANGED <<dates, now, disk, signin, credential, refresh, auth, console, traffic>>

\* process.exit(code) after printing `lines`
Exit(p, lines, code) ==
  /\ out' = [out EXCEPT ![p] = @ \o lines]
  /\ exitCode' = [exitCode EXCEPT ![p] = code]
  /\ pc' = [pc EXCEPT ![p] = "done"]

\* the process moves on without printing
Goto(p, label) ==
  /\ pc' = [pc EXCEPT ![p] = label]
  /\ UNCHANGED console

\* the invocation reports that the expired credential of its profile cannot
\* be renewed without the user
NeedsAuthReported(p) == needsAuth' = needsAuth \cup {values[p].profile}

\* the profile of the invocation is authenticated by the user, or removed
NeedsAuthSettled(p) == needsAuth' = needsAuth \ {values[p].profile}

\* ---------------------------------------------------------- check-auth.ts
\* Math.round(expiresIn / 60) for a non-negative integer
RoundMinutes(secs) == (2 * secs + SecondsPerMinute) \div (2 * SecondsPerMinute)

\* JSON.stringify(result): undefined members are omitted
CheckAuthJson(res) ==
  << <<"status", res.status>> >>
  \o (IF res.expiresIn # Absent THEN << <<"expiresIn", res.expiresIn[1]>> >> ELSE <<>>)
  \o (IF res.account # None THEN << <<"account", res.account>> >> ELSE <<>>)
  \o (IF res.error # None THEN << <<"error", res.error>> >> ELSE <<>>)

CheckAuthText(res) ==
  IF res.status = "valid"
  THEN << <<"Auth status: Valid">> >>
       \o (IF Truthy(res.account) THEN << <<"Account: ", res.account>> >> ELSE <<>>)
       \o (IF res.expiresIn # Absent
           THEN << <<"Expires in minutes: ", RoundMinutes(res.expiresIn[1])>> >>
           ELSE <<>>)
  ELSE << <<"Auth status: Authentication required">> >>
       \o (IF Truthy(res.error) THEN << <<"Reason: ", res.error>> >> ELSE <<>>)

\* the exit codes the wrong way round
CheckAuthExitCodeInverted(res) == IF res.status = "valid" THEN 1 ELSE 0

CheckAuthExitCode(res) == IF res.status = "valid" THEN 0 ELSE 1

\* output(result): print as JSON or text, then process.exit
CheckAuthOutput(p, res) ==
  Exit(p,
       IF values[p].json THEN << <<"json", CheckAuthJson(res)>> >> ELSE CheckAuthText(res),
       CheckAuthExitCode(res))

NeedsAuth(reason) ==
  [status |-> "needs-auth", expiresIn |-> Absent, account |-> None, error |-> reason]

\* expiresIn without the clamp at zero
ExpiresInUnclamped(cred, clock) ==
  (ParseISO(cred.expiresAt) - clock) \div MsPerSecond

\* expiresIn rounded to the nearest second instead of rounded down
ExpiresInRounded(cred, clock) ==
  Max(0, (2 * (ParseISO(cred.expiresAt) - clock) + MsPerSecond) \div (2 * MsPerSecond))

\* Math.max(0, Math.floor((expiresAt.getTime() - Date.now()) / 1000))
ExpiresIn(cred, clock) ==
  Max(0, (ParseISO(cred.expiresAt) - clock) \div MsPerSecond)

\* the valid result with the access token in the place of the account
ValidEchoesToken(cred, clock) ==
  [status |-> "valid", expiresIn |-> Some(ExpiresIn(cred, clock)),
   account |-> cred.accessToken, error |-> None]

Valid(cred, clock) ==
  [status |-> "valid", expiresIn |-> Some(ExpiresIn(cred, clock)),
   account |-> cred.account, error |-> None]

StartCheckAuth(p) ==
  /\ \E pr \in Profiles, j \in BOOLEAN :
       Launch(p, "check-auth", [profile |-> pr, json |-> j])
  /\ pc' = [pc EXCEPT ![p] = "ca_load"]

\* const credential = await getCredential(...); if (!credential) ...
CheckAuthLoad(p) ==
  /\ pc[p] = "ca_load"
  /\ credential' = [credential EXCEPT ![p] = getCredential(store, values[p].profile)]
  /\ IF credential'[p] = Absent
     THEN CheckAuthOutput(p, NeedsAuth("No credentials found"))
     ELSE Goto(p, "ca_check")
  /\ UNCHANGED <<started, dates, now, disk, signin, args, refresh, auth, traffic>>

\* the branch without the test for a missing refresh token
CheckAuthBranchAlwaysRefresh(cred, clock) ==
  IF ~isTokenExpired(cred, clock) THEN "ca_valid" ELSE "ca_refresh"

\* the branch with the negation of the expiry test dropped
CheckAuthBranchInverted(cred, clock) ==
  IF isTokenExpired(cred, clock) THEN "ca_valid"
  ELSE IF ~Truthy(cred.refreshToken) THEN "no_refresh_token"
  ELSE "ca_refresh"

\* if (!isTokenExpired(credential)) ... ; if (!credential.refreshToken) ...
CheckAuthBranch(cred, clock) ==
  IF ~isTokenExpired(cred, clock) THEN "ca_valid"
  ELSE IF ~Truthy(cred.refreshToken) THEN "no_refresh_token"
  ELSE "ca_refresh"

CheckAuthCheck(p) ==
  /\ pc[p] = "ca_check"
  /\ LET branch == CheckAuthBranch(credential[p][1], now) IN
       IF branch = "no_refresh_token"
       THEN /\ CheckAuthOutput(p, NeedsAuth("Token expired, no refresh token"))
            /\ NeedsAuthReported(p)
       ELSE Goto(p, branch) /\ UNCHANGED needsAuth
  /\ UNCHANGED <<started, dates, now, store, deleted, signin, args, credential, refresh,
                 auth, traffic>>

\* the unexpired branch: expiresIn is computed from a second clock reading
CheckAuthValid(p) ==
  /\ pc[p] = "ca_valid"
  /\ CheckAuthOutput(p, Valid(credential[p][1], now))
  /\ UNCHANGED <<started, dates, now, disk, signin, args, credential, refresh, auth, traffic>>

\* the refreshed credential with the expiry of the one it replaces
RefreshedCredentialStaleExpiry(cred, r, clock) ==
  [ accessToken |-> r.accessToken,
    refreshToken |-> IF r.refreshToken # None THEN r.refreshToken ELSE cred.refreshToken,
    expiresAt |-> cred.expiresAt,
    account |-> IF r.account # None THEN r.account ELSE cred.account,
    scopes |-> IF Len(r.scopes) > 0 THEN r.scopes ELSE cred.scopes,
    clientId |-> cred.clientId,
    tenantId |-> cred.tenantId ]

\* a request that always goes to the shared default app registration
RefreshRequestDefaults(cred) ==
  [ clientId |-> DEFAULT_CLIENT_ID,
    tenantId |-> DEFAULT_TENANT,
    refreshToken |-> cred.refreshToken ]

\* the request sent by pca.acquireTokenByRefreshToken
RefreshRequest(cred) ==
  [ clientId |-> IF cred.clientId # None THEN cred.clientId ELSE DEFAULT_CLIENT_ID,
    tenantId |-> IF cred.tenantId # None THEN cred.tenantId ELSE DEFAULT_TENANT,
    refreshToken |-> cred.refreshToken ]

\* the reason without its fixed prefix
RefreshFailedBare(err) == IF err.isError THEN err.message ELSE "Unknown error"

\* the text of `Refresh failed: ${message}`
RefreshFailed(err) ==
  "Refresh failed: " \o (IF err.isError THEN err.message ELSE "Unknown error")

\* const result = await pca.acquireTokenByRefreshToken(...)
CheckAuthRefresh(p) ==
  /\ pc[p] = "ca_refresh"
  /\ grants' = [grants EXCEPT ![p] = Append(@, RefreshRequest(credential[p][1]))]
  /\ \/ \E err \in ThrownErrors :
          /\ CheckAuthOutput(p, NeedsAuth(RefreshFailed(err)))
          /\ NeedsAuthReported(p)
          /\ UNCHANGED result
     \/ /\ CheckAuthOutput(p, NeedsAuth("Refresh returned no result"))
        /\ NeedsAuthReported(p)
        /\ UNCHANGED result
     \/ \E r \in GrantResults(now) :
          /\ result' = [result EXCEPT ![p] = Some(r)]
          /\ Goto(p, "ca_build")
          /\ UNCHANGED needsAuth
  /\ UNCHANGED <<started, dates, now, store, deleted, signin, args, credential,
                 newCredential, doc, auth, requests, httpResponse>>

\* the refreshed credential without the fallback to the stored refresh token
RefreshedCredentialLosesRefreshToken(cred, r, clock) ==
  [ accessToken |-> r.accessToken,
    refreshToken |-> r.refreshToken,
    expiresAt |-> IF r.expiresOn # Absent THEN ToISOString(r.expiresOn[1])
                  ELSE ToISOString(clock + DefaultLifetimeMs),
    account |-> IF r.account # None THEN r.account ELSE cred.account,
    scopes |-> IF Len(r.scopes) > 0 THEN r.scopes ELSE cred.scopes,
    clientId |-> cred.clientId,
    tenantId |-> cred.tenantId ]

\* the refreshed credential without the fallbacks for account and scopes
RefreshedCredentialNoFallback(cred, r, clock) ==
  [ accessToken |-> r.accessToken,
    refreshToken |-> IF r.refreshToken # None THEN r.refreshToken ELSE cred.refreshToken,
    expiresAt |-> IF r.expiresOn # Absent THEN ToISOString(r.expiresOn[1])
                  ELSE ToISOString(clock + DefaultLifetimeMs),
    account |-> r.account,
    scopes |-> r.scopes,
    clientId |-> cred.clientId,
    tenantId |-> cred.tenantId ]

\* const newCredential: Credential = { ... }
RefreshedCredential(cred, r, clock) ==
  [ accessToken |-> r.accessToken,
    refreshToken |-> IF r.refreshToken # None THEN r.refreshToken ELSE cred.refreshToken,
    expiresAt |-> IF r.expiresOn # Absent THEN ToISOString(r.expiresOn[1])
                  ELSE ToISOString(clock + DefaultLifetimeMs),
    account |-> IF r.account # None THEN r.account ELSE cred.account,
    scopes |-> IF Len(r.scopes) > 0 THEN r.scopes ELSE cred.scopes,
    clientId |-> cred.clientId,
    tenantId |-> cred.tenantId ]

\* newCredential is built and setCredential reads the whole document
CheckAuthBuild(p) ==
  /\ pc[p] = "ca_build"
  /\ newCredential' = [newCredential EXCEPT ![p] =
       Some(RefreshedCredential(credential[p][1], result[p][1], now))]
  /\ doc' = [doc EXCEPT ![p] = Some(store)]
  /\ Goto(p, "ca_save")
  /\ UNCHANGED <<started, dates, now, disk, signin, args, credential, result, auth, traffic>>

\* setCredential writes the whole document back
CheckAuthSave(p) ==
  /\ pc[p] = "ca_save"
  /\ store' = WithCredential(doc[p][1], values[p].profile, newCredential[p][1])
  /\ UNCHANGED <<deleted, needsAuth>>
  /\ Goto(p, "ca_refreshed")
  /\ UNCHANGED <<started, dates, now, signin, args, credential, refresh, auth, traffic>>

\* expiresIn of the refreshed credential, from a fresh clock reading
CheckAuthRefreshed(p) ==
  /\ pc[p] = "ca_refreshed"
  /\ CheckAuthOutput(p, Valid(newCredential[p][1], now))
  /\ UNCHANGED <<started, dates, now, disk, signin, args, credential, refresh, auth, traffic>>

CheckAuth(p) ==
  \/ StartCheckAuth(p)
  \/ CheckAuthLoad(p)
  \/ CheckAuthCheck(p)
  \/ CheckAuthValid(p)
  \/ CheckAuthRefresh(p)
  \/ CheckAuthBuild(p)
  \/ CheckAuthSave(p)
  \/ CheckAuthRefreshed(p)

\* ------------------------------------------------- check-auth-complete.ts
CompleteJson(res) ==
  << <<"status", res.status>> >>
  \o (IF res.account # None THEN << <<"account", res.account>> >> ELSE <<>>)
  \o (IF res.error # None THEN << <<"error", res.error>> >> ELSE <<>>)

CompleteText(res) ==
  IF res.status = "complete"
  THEN << <<"Authentication complete!">> >>
       \o (IF Truthy(res.account) THEN << <<"Account: ", res.account>> >> ELSE <<>>)
  ELSE IF res.status = "pending"
  THEN << <<"Authentication still pending">> >>
       \o (IF Truthy(res.error) THEN << <<"Note: ", res.error>> >> ELSE <<>>)
  ELSE << <<"Authentication failed">> >>
       \o (IF Truthy(res.error) THEN << <<"Error: ", res.error>> >> ELSE <<>>)

CompleteExitCode(res) == IF res.status = "complete" THEN 0 ELSE 1

CompleteOutput(p, res) ==
  Exit(p,
       IF values[p].json THEN << <<"json", CompleteJson(res)>> >> ELSE CompleteText(res),
       CompleteExitCode(res))

StartCheckAuthComplete(p) ==
  /\ \E pr \in Profiles, j \in BOOLEAN :
       Launch(p, "check-auth-complete", [profile |-> pr, json |-> j])
  /\ pc' = [pc EXCEPT ![p] = "cc_load"]

CheckAuthCompleteLoad(p) ==
  /\ pc[p] = "cc_load"
  /\ credential' = [credential EXCEPT ![p] = getCredential(store, values[p].profile)]
  /\ IF credential'[p] = Absent
     THEN CompleteOutput(p, [status |-> "pending", account |-> None,
                             error |-> "No credentials found yet"])
     ELSE Goto(p, "cc_check")
  /\ UNCHANGED <<started, dates, now, disk, signin, args, refresh, auth, traffic>>

\* an expired credential that could still be refreshed counted as complete
CompleteResultCountsRefreshToken(cred, clock) ==
  IF ~isTokenExpired(cred, clock) \/ Truthy(cred.refreshToken)
  THEN [status |-> "complete", account |-> cred.account, error |-> None]
  ELSE [status |-> "failed", account |-> None,
        error |-> "Credentials expired - please try authenticating again"]

\* if (!isTokenExpired(credential)) complete, else failed
CompleteResult(cred, clock) ==
  IF ~isTokenExpired(cred, clock)
  THEN [status |-> "complete", account |-> cred.account, error |-> None]
  ELSE [status |-> "failed", account |-> None,
        error |-> "Credentials expired - please try authenticating again"]

CheckAuthCompleteCheck(p) ==
  /\ pc[p] = "cc_check"
  /\ CompleteOutput(p, CompleteResult(credential[p][1], now))
  /\ UNCHANGED <<started, dates, now, disk, signin, args, credential, refresh, auth, traffic>>

CheckAuthComplete(p) ==
  \/ StartCheckAuthComplete(p)
  \/ CheckAuthCompleteLoad(p)
  \/ CheckAuthCompleteCheck(p)

\* ----------------------------------------------------------------- auth.ts
\* GRAPH_SCOPES.user, .mail and .calendar together
AllScopes == <<"User.Read", "Mail.Read", "Calendars.Read">>

\* the device code response of the identity provider
DeviceCodeResponse ==
  [ userCode |-> "ABC123",
    verificationUri |-> "https://microsoft.com/devicelogin",
    expiresIn |-> 900,
    message |-> "To sign in, use a web browser" ]

\* the lines printed before the flow starts, unless --json
AuthPrelude(vals) ==
  IF vals.json THEN <<>>
  ELSE << <<"Authenticating with Microsoft Graph...">>,
          <<"Profile: ", vals.profile>>,
          IF vals.clientId # None THEN <<"Client ID: ", vals.clientId>>
          ELSE <<"Client ID: (using default Graph Explorer client)">> >>
       \o (IF vals.tenantId # None THEN << <<"Tenant ID: ", vals.tenantId>> >> ELSE <<>>)
       \o << <<"Scopes: ", AllScopes>> >>

\* a callback that prints nothing before it exits
DeviceCodeLinesSilent(vals, response) == <<>>

\* what deviceCodeCallback prints
DeviceCodeLines(vals, response) ==
  IF vals.json
  THEN << <<"json", << <<"userCode", response.userCode>>,
                       <<"verificationUri", response.verificationUri>>,
                       <<"expiresIn", response.expiresIn>>,
                       <<"message", response.message>> >> >> >>
  ELSE << <<"To authenticate, please:">>,
          <<"1. Go to: ", response.verificationUri>>,
          <<"2. Enter code: ", response.userCode>>,
          <<"Code expires in minutes: ", RoundMinutes(response.expiresIn)>> >>

StartAuthNoWait(p) ==
  /\ \E pr \in Profiles, j \in BOOLEAN :
       Launch(p, "auth", [profile |-> pr, json |-> j, noWait |-> TRUE,
                          list |-> FALSE, delete |-> FALSE,
                          clientId |-> None, tenantId |-> None])
  /\ pc' = [pc EXCEPT ![p] = "au_main"]

\* main() up to pca.acquireTokenByDeviceCode(deviceCodeRequest), not awaited
AuthNoWaitBegin(p) ==
  /\ pc[p] = "au_main"
  /\ ~values[p].list /\ ~values[p].delete
  /\ values[p].noWait
  /\ out' = [out EXCEPT ![p] = @ \o AuthPrelude(values[p])]
  /\ pc' = [pc EXCEPT ![p] = "au_nowait"]
  /\ UNCHANGED <<started, dates, now, disk, signin, args, credential, refresh, auth,
                 exitCode, traffic>>

\* deviceCodeCallback fires: the code is printed and the process exits at once,
\* which also ends the polling the library had begun
AuthNoWaitCallback(p) ==
  /\ pc[p] \in {"au_nowait", "au_returned"}
  /\ Exit(p, DeviceCodeLines(values[p], DeviceCodeResponse), 0)
  /\ signin' = [signin EXCEPT ![values[p].profile] = "issued"]
  /\ UNCHANGED <<started, dates, now, disk, args, credential, refresh, auth, traffic>>

\* the device code request fails: the promise is not awaited, so the rejection
\* is not caught by main's try block and ends the process
AuthNoWaitRejected(p) ==
  /\ pc[p] \in {"au_nowait", "au_returned"}
  /\ Exit(p, <<>>, 1)
  /\ UNCHANGED <<started, dates, now, disk, signin, args, credential, refresh, auth, traffic>>

\* the 5000 ms timer ends and main returns; the pending device code request
\* keeps the process running until its callback fires or it fails
AuthNoWaitTimer(p) ==
  /\ pc[p] = "au_nowait"
  /\ Goto(p, "au_returned")
  /\ UNCHANGED <<started, dates, now, disk, signin, args, credential, refresh, auth, traffic>>

\* listProfiles: the profile names of the service, in a fixed order
ProfileOrder == <<"default", "work">>

listProfiles(file) == SelectSeq(ProfileOrder, LAMBDA q : q \in DOMAIN file)

\* new Date(cred.expiresAt) < new Date()
ListedExpired(cred, clock) == ParseISO(cred.expiresAt) < clock

\* the lines --list prints for one profile
ListProfile(q, cred, clock) ==
  << <<"  ", q>>,
     <<"    Account: ", cred.account>>,
     <<"    Scopes: ", cred.scopes>> >>
  \o (IF Truthy(cred.clientId) THEN << <<"    Client ID: ", cred.clientId>> >> ELSE <<>>)
  \o (IF Truthy(cred.tenantId) THEN << <<"    Tenant ID: ", cred.tenantId>> >> ELSE <<>>)
  \o << <<"    Status: ", IF ListedExpired(cred, clock) THEN "EXPIRED" ELSE "Valid">> >>

RECURSIVE ListProfiles(_, _, _)
ListProfiles(names, file, clock) ==
  IF names = <<>> THEN <<>>
  ELSE ListProfile(Head(names), file[Head(names)], clock)
       \o ListProfiles(Tail(names), file, clock)

ListLines(file, clock) ==
  IF Len(listProfiles(file)) = 0
  THEN << <<"No credential profiles found.">>,
          <<"Run 'bun run auth.ts' to create one.">> >>
  ELSE << <<"Microsoft Graph credential profiles:">> >>
       \o ListProfiles(listProfiles(file), file, clock)

StartAuthList(p) ==
  /\ \E pr \in Profiles, d \in BOOLEAN :
       Launch(p, "auth", [profile |-> pr, json |-> FALSE, noWait |-> FALSE,
                          list |-> TRUE, delete |-> d,
                          clientId |-> None, tenantId |-> None])
  /\ pc' = [pc EXCEPT ![p] = "au_main"]

\* a --list that also drops the profiles it shows as expired
AuthListPrunesExpired(p) ==
  /\ pc[p] = "au_main"
  /\ values[p].list
  /\ Exit(p, ListLines(store, now), 0)
  /\ store' = [q \in {r \in DOMAIN store : ~ListedExpired(store[r], now)} |-> store[q]]
  /\ UNCHANGED <<started, dates, now, deleted, needsAuth, signin, args, credential, refresh,
                 auth, traffic>>

\* if (values.list) { ... return; }
AuthList(p) ==
  /\ pc[p] = "au_main"
  /\ values[p].list
  /\ Exit(p, ListLines(store, now), 0)
  /\ UNCHANGED <<started, dates, now, disk, signin, args, credential, refresh, auth, traffic>>

StartAuthDelete(p) ==
  /\ \E pr \in Profiles :
       Launch(p, "auth", [profile |-> pr, json |-> FALSE, noWait |-> FALSE,
                          list |-> FALSE, delete |-> TRUE,
                          clientId |-> None, tenantId |-> None])
  /\ pc' = [pc EXCEPT ![p] = "au_main"]

\* a delete that leaves the document as it was
WithoutCredentialKeepsAll(file, profile) == file

\* a delete that blanks the tokens of the profile and keeps its entry
WithoutCredentialBlanked(file, profile) ==
  [q \in DOMAIN file |->
     IF q = profile THEN [file[q] EXCEPT !.accessToken = "", !.refreshToken = None]
     ELSE file[q]]

\* deleteCredential: the document without `profile`
WithoutCredential(file, profile) ==
  [q \in (DOMAIN file) \ {profile} |-> file[q]]

\* deleteCredential reads the whole document
AuthDeleteRead(p) ==
  /\ pc[p] = "au_main"
  /\ ~values[p].list /\ values[p].delete
  /\ doc' = [doc EXCEPT ![p] = Some(store)]
  /\ Goto(p, "au_delete")
  /\ UNCHANGED <<started, dates, now, disk, signin, args, credential, result, newCredential,
                 auth, traffic>>

\* --delete reporting a deletion whatever deleteCredential returned
DeletedLinesIgnoresResult(found, profile) ==
  << <<"Deleted credential profile: ", profile>> >>

\* what --delete prints
DeletedLines(found, profile) ==
  IF found THEN << <<"Deleted credential profile: ", profile>> >>
  ELSE << <<"Profile not found: ", profile>> >>

\* deleteCredential writes the document back when the profile was in it;
\* main prints what happened and returns
AuthDeleteWrite(p) ==
  /\ pc[p] = "au_delete"
  /\ LET file == doc[p][1]
         found == values[p].profile \in DOMAIN file
     IN /\ store' = IF found THEN WithoutCredential(file, values[p].profile) ELSE store
        /\ deleted' = IF found THEN deleted \cup {values[p].profile} ELSE deleted
        /\ IF found THEN NeedsAuthSettled(p) ELSE UNCHANGED needsAuth
        /\ Exit(p, DeletedLines(found, values[p].profile), 0)
  /\ UNCHANGED <<started, dates, now, signin, args, credential, refresh, auth, traffic>>

StartAuthBlocking(p) ==
  /\ \E pr \in Profiles, j \in BOOLEAN :
       Launch(p, "auth", [profile |-> pr, json |-> j, noWait |-> FALSE,
                          list |-> FALSE, delete |-> FALSE,
                          clientId |-> IF pr = "work" THEN "app1" ELSE None,
                          tenantId |-> IF pr = "work" THEN "tenant1" ELSE None])
  /\ pc' = [pc EXCEPT ![p] = "au_main"]

\* main() up to client.authenticate(scopes)
AuthBegin(p) ==
  /\ pc[p] = "au_main"
  /\ ~values[p].list /\ ~values[p].delete /\ ~values[p].noWait
  /\ out' = [out EXCEPT ![p] = @ \o AuthPrelude(values[p])]
  /\ pc' = [pc EXCEPT ![p] = "au_code"]
  /\ UNCHANGED <<started, dates, now, disk, signin, args, credential, refresh, auth,
                 exitCode, traffic>>

\* catch (error): a JSON error object or a line on stderr, then process.exit(1)
AuthFailedLines(vals, err) ==
  IF vals.json
  THEN << <<"json", << <<"status", "error">>,
                       <<"error", IF err.isError THEN err.message ELSE "Unknown error">> >> >> >>
  ELSE << <<"stderr", "Authentication failed:", err.message>> >>

\* the errors client.authenticate can throw
AuthErrors ==
  { [isError |-> TRUE, message |-> "Device code expired"],
    [isError |-> TRUE, message |-> "authorization_declined"],
    [isError |-> FALSE, message |-> None] }

\* authenticate: the provider issues a device code, which authenticate prints
AuthDeviceCode(p) ==
  /\ pc[p] = "au_code"
  /\ signin' = [signin EXCEPT ![values[p].profile] = "issued"]
  /\ out' = [out EXCEPT ![p] =
       @ \o << <<"device code", DeviceCodeResponse.userCode,
                 DeviceCodeResponse.verificationUri>> >>]
  /\ pc' = [pc EXCEPT ![p] = "au_poll"]
  /\ UNCHANGED <<started, dates, now, disk, args, credential, refresh, auth, exitCode, traffic>>

\* the flow fails: the code expires unconsumed or the provider rejects the grant
AuthFailed(p) ==
  /\ pc[p] \in {"au_code", "au_poll"}
  /\ pc[p] = "au_poll" => signin[values[p].profile] # "completed"
  /\ \E err \in AuthErrors : Exit(p, AuthFailedLines(values[p], err), 1)
  /\ signin' = [signin EXCEPT ![values[p].profile] = "none"]
  /\ UNCHANGED <<started, dates, now, disk, args, credential, refresh, auth, traffic>>

\* the Credential authenticate builds from the provider's result
AuthenticatedCredential(vals, r, clock) ==
  [ accessToken |-> r.accessToken,
    refreshToken |-> r.refreshToken,
    expiresAt |-> IF r.expiresOn # Absent THEN ToISOString(r.expiresOn[1])
                  ELSE ToISOString(clock + DefaultLifetimeMs),
    account |-> r.account,
    scopes |-> r.scopes,
    clientId |-> vals.clientId,
    tenantId |-> vals.tenantId ]

\* the user has signed in: polling obtains the tokens, which name the account
\* that signed in; the Credential is built and the store call reads the whole
\* document
AuthGranted(p) ==
  /\ pc[p] = "au_poll"
  /\ signin[values[p].profile] = "completed"
  /\ signin' = [signin EXCEPT ![values[p].profile] = "none"]
  /\ \E r \in GrantResults(now) :
       /\ r.account # None
       /\ result' = [result EXCEPT ![p] = Some(r)]
       /\ newCredential' = [newCredential EXCEPT ![p] =
            Some(AuthenticatedCredential(values[p], r, now))]
  /\ doc' = [doc EXCEPT ![p] = Some(store)]
  /\ Goto(p, "au_save")
  /\ UNCHANGED <<started, dates, now, disk, args, credential, auth, traffic>>

\* authenticate persists the Credential under the active profile
AuthSave(p) ==
  /\ pc[p] = "au_save"
  /\ store' = WithCredential(doc[p][1], values[p].profile, newCredential[p][1])
  /\ deleted' = deleted \ {values[p].profile}
  /\ NeedsAuthSettled(p)
  /\ Goto(p, "au_saved")
  /\ UNCHANGED <<started, dates, now, signin, args, credential, refresh, auth, traffic>>

\* what main prints after client.authenticate returned
AuthSuccessLines(vals, r) ==
  IF vals.json
  THEN << <<"json", << <<"status", "success">> >>
             \o (IF r.account # None THEN << <<"account", r.account>> >> ELSE <<>>)
             \o (IF r.expiresOn # Absent
                 THEN << <<"expiresAt", ToISOString(r.expiresOn[1])>> >> ELSE <<>>) >> >>
  ELSE << <<"Authentication successful!">>,
          <<"  Account: ", r.account>>,
          <<"  Expires: ", r.expiresOn>> >>
       \o (IF vals.clientId # None THEN << <<"  Client ID saved for future use">> >> ELSE <<>>)
       \o << <<"Credentials saved to profile: ", vals.profile>> >>

\* main prints the result and returns
AuthSuccess(p) ==
  /\ pc[p] = "au_saved"
  /\ Exit(p, AuthSuccessLines(values[p], result[p][1]), 0)
  /\ UNCHANGED <<started, dates, now, disk, signin, args, credential, refresh, auth, traffic>>

Auth(p) ==
  \/ StartAuthNoWait(p)
  \/ AuthNoWaitBegin(p)
  \/ AuthNoWaitTimer(p)
  \/ AuthNoWaitCallback(p)
  \/ AuthNoWaitRejected(p)
  \/ StartAuthList(p)
  \/ AuthList(p)
  \/ StartAuthDelete(p)
  \/ AuthDeleteRead(p)
  \/ AuthDeleteWrite(p)
  \/ StartAuthBlocking(p)
  \/ AuthBegin(p)
  \/ AuthDeviceCode(p)
  \/ AuthFailed(p)
  \/ AuthGranted(p)
  \/ AuthSave(p)
  \/ AuthSuccess(p)

\* the user finishes sign-in in the browser with the code that was shown
UserSignsIn ==
  /\ \E q \in Profiles :
       /\ signin[q] = "issued"
       /\ signin' = [signin EXCEPT ![q] = "completed"]
  /\ UNCHANGED <<started, dates, now, disk, pc, args, credential, refresh, auth,
                 console, traffic>>

\* ------------------------------------------------------ lib/auth-handler.ts
\* the response carried by a non-ok result: the reason and the device code
AuthRequired(reason) ==
  [ status |-> "auth_required",
    error |-> reason,
    userCode |-> DeviceCodeResponse.userCode,
    verificationUri |-> DeviceCodeResponse.verificationUri,
    expiresIn |-> DeviceCodeResponse.expiresIn ]

NotOk(reason) == [ok |-> FALSE, response |-> AuthRequired(reason)]
Ok(token) == [ok |-> TRUE, token |-> token]

\* ensureAuth returns `res` to the script that called it
EnsureAuthReturn(p, res) ==
  /\ auth' = [auth EXCEPT ![p] = Some(res)]
  /\ Goto(p, "auth_back")

\* load the credential for (service, profile); absent -> auth_required
EnsureAuthLoad(p) ==
  /\ pc[p] = "ea_load"
  /\ credential' = [credential EXCEPT ![p] = getCredential(store, values[p].profile)]
  /\ IF credential'[p] = Absent
     THEN EnsureAuthReturn(p, NotOk("No credentials found"))
     ELSE Goto(p, "ea_check") /\ UNCHANGED auth
  /\ UNCHANGED <<started, dates, now, disk, signin, args, refresh, traffic>>

\* the branch that treats every stored credential as usable
EnsureAuthBranchIgnoresExpiry(cred, clock) == "ok"

\* not expired -> ok; expired without refresh token -> auth_required
EnsureAuthBranch(cred, clock) ==
  IF ~isTokenExpired(cred, clock) THEN "ok"
  ELSE IF ~Truthy(cred.refreshToken) THEN "no_refresh_token"
  ELSE "ea_refresh"

EnsureAuthCheck(p) ==
  /\ pc[p] = "ea_check"
  /\ LET cred == credential[p][1]
         branch == EnsureAuthBranch(cred, now)
     IN IF branch = "ok"
        THEN EnsureAuthReturn(p, Ok(cred.accessToken)) /\ UNCHANGED needsAuth
        ELSE IF branch = "no_refresh_token"
        THEN /\ EnsureAuthReturn(p, NotOk("Token expired, no refresh token"))
             /\ NeedsAuthReported(p)
        ELSE Goto(p, branch) /\ UNCHANGED <<auth, needsAuth>>
  /\ UNCHANGED <<started, dates, now, store, deleted, signin, args, credential, refresh,
                 traffic>>

\* the refresh-token grant with the stored refresh token
EnsureAuthRefresh(p) ==
  /\ pc[p] = "ea_refresh"
  /\ grants' = [grants EXCEPT ![p] = Append(@, RefreshRequest(credential[p][1]))]
  /\ \/ \E err \in ThrownErrors :
          /\ EnsureAuthReturn(p, NotOk(RefreshFailed(err)))
          /\ NeedsAuthReported(p)
          /\ UNCHANGED result
     \/ /\ EnsureAuthReturn(p, NotOk("Refresh returned no result"))
        /\ NeedsAuthReported(p)
        /\ UNCHANGED result
     \/ \E r \in GrantResults(now) :
          /\ result' = [result EXCEPT ![p] = Some(r)]
          /\ Goto(p, "ea_build")
          /\ UNCHANGED <<auth, needsAuth>>
  /\ UNCHANGED <<started, dates, now, store, deleted, signin, args, credential,
                 newCredential, doc, requests, httpResponse>>

\* on success the new Credential is built and the store call reads the document
EnsureAuthBuild(p) ==
  /\ pc[p] = "ea_build"
  /\ newCredential' = [newCredential EXCEPT ![p] =
       Some(RefreshedCredential(credential[p][1], result[p][1], now))]
  /\ doc' = [doc EXCEPT ![p] = Some(store)]
  /\ Goto(p, "ea_save")
  /\ UNCHANGED <<started, dates, now, disk, signin, args, credential, result, auth, traffic>>

\* the new Credential is persisted and its token returned
EnsureAuthSave(p) ==
  /\ pc[p] = "ea_save"
  /\ store' = WithCredential(doc[p][1], values[p].profile, newCredential[p][1])
  /\ UNCHANGED <<deleted, needsAuth>>
  /\ EnsureAuthReturn(p, Ok(newCredential[p][1].accessToken))
  /\ UNCHANGED <<started, dates, now, signin, args, credential, refresh, traffic>>

ensureAuth(p) ==
  \/ EnsureAuthLoad(p)
  \/ EnsureAuthCheck(p)
  \/ EnsureAuthRefresh(p)
  \/ EnsureAuthBuild(p)
  \/ EnsureAuthSave(p)

\* ------------------------------------------------- emails.ts and calendar.ts
\* exit code 1 for status error only
ScriptExitCodeErrorsOnly(response) == IF response.status = "error" THEN 1 ELSE 0

\* output(response): always JSON, exit 0 only for status success
ScriptExitCode(response) == IF response.status = "success" THEN 0 ELSE 1

ScriptOutput(p, response) ==
  Exit(p, << <<"json", response>> >>, ScriptExitCode(response))

ErrorResponse(message) == [status |-> "error", error |-> message]

\* what the Graph API can answer to one request
GraphAnswers ==
  { [kind |-> "response", ok |-> TRUE, status |-> 200, body |-> "value"],
    [kind |-> "response", ok |-> FALSE, status |-> 401, body |-> "InvalidAuthenticationToken"],
    [kind |-> "response", ok |-> FALSE, status |-> 503, body |-> ""],
    [kind |-> "network", ok |-> FALSE, status |-> 0, body |-> "fetch failed"],
    [kind |-> "malformed", ok |-> TRUE, status |-> 200, body |-> "JSON Parse error"] }

\* the error message without the response body
GraphErrorMessageNoBody(answer) ==
  IF answer.kind # "response" THEN answer.body
  ELSE "Graph API error: " \o ToString(answer.status)

\* graphRequest: the parsed body, or the message of the Error it throws
GraphErrorMessage(answer) ==
  IF answer.kind # "response" THEN answer.body
  ELSE "Graph API error: " \o ToString(answer.status) \o " - " \o answer.body

EmailsCommands ==
  { [command |-> None, id |-> None, query |-> None],
    [command |-> "list", id |-> None, query |-> None],
    [command |-> "read", id |-> None, query |-> None],
    [command |-> "search", id |-> None, query |-> None],
    [command |-> "bogus", id |-> None, query |-> None] }

\* positionals[0] || "list"
CalendarCommands ==
  { [command |-> "list", id |-> None, query |-> None],
    [command |-> "view", id |-> "e1", query |-> None],
    [command |-> "search", id |-> None, query |-> "q"] }

StartEmails(p) ==
  /\ \E pr \in Profiles, c \in EmailsCommands :
       Launch(p, "emails", [profile |-> pr, command |-> c.command,
                            id |-> c.id, query |-> c.query])
  /\ pc' = [pc EXCEPT ![p] = "em_main"]

StartCalendar(p) ==
  /\ \E pr \in Profiles, c \in CalendarCommands :
       Launch(p, "calendar", [profile |-> pr, command |-> c.command,
                              id |-> c.id, query |-> c.query])
  /\ pc' = [pc EXCEPT ![p] = "ea_load"]

\* emails main(): if (!command) ... ; await ensureAuth(...)
EmailsMain(p) ==
  /\ pc[p] = "em_main"
  /\ IF ~Truthy(values[p].command)
     THEN ScriptOutput(p, ErrorResponse("No command specified. Use --help for usage."))
     ELSE Goto(p, "ea_load")
  /\ UNCHANGED <<started, dates, now, disk, signin, args, credential, refresh, auth, traffic>>

\* the commands that issue a Graph request, per script
RequestCommands(name) ==
  IF name = "emails" THEN {"list", "read", "search", "folders"}
  ELSE {"list", "today", "week", "view", "search"}

\* the command that needs --id, per script
IdCommand(name) == IF name = "emails" THEN "read" ELSE "view"

\* the command switch without the test of auth.ok before it
DispatchIgnoresAuth(name, a, v) ==
  IF v.command \notin RequestCommands(name)
  THEN Some(ErrorResponse("Unknown command: " \o v.command \o ". Use --help for usage."))
  ELSE IF v.command = IdCommand(name) /\ ~Truthy(v.id)
  THEN Some(ErrorResponse("--id is required for '" \o v.command \o "' command"))
  ELSE IF v.command = "search" /\ ~Truthy(v.query)
  THEN Some(ErrorResponse("--query is required for 'search' command"))
  ELSE Absent

\* if (!auth.ok) { output(auth.response); return; } then the command switch:
\* the response to print, or no response when a Graph request is to be made
Dispatch(name, a, v) ==
  IF ~a.ok THEN Some(a.response)
  ELSE IF v.command \notin RequestCommands(name)
  THEN Some(ErrorResponse("Unknown command: " \o v.command \o ". Use --help for usage."))
  ELSE IF v.command = IdCommand(name) /\ ~Truthy(v.id)
  THEN Some(ErrorResponse("--id is required for '" \o v.command \o "' command"))
  ELSE IF v.command = "search" /\ ~Truthy(v.query)
  THEN Some(ErrorResponse("--query is required for 'search' command"))
  ELSE Absent

ScriptDispatch(p) ==
  /\ pc[p] = "auth_back"
  /\ LET response == Dispatch(script[p], auth[p][1], values[p]) IN
       IF response # Absent THEN ScriptOutput(p, response[1]) ELSE Goto(p, "graph")
  /\ UNCHANGED <<started, dates, now, disk, signin, args, credential, refresh, auth, traffic>>

\* await graphRequest(token, endpoint), then output success or the caught error
ScriptRequest(p) ==
  /\ pc[p] = "graph"
  /\ requests' = [requests EXCEPT ![p] = @ + 1]
  /\ \E answer \in GraphAnswers :
       /\ httpResponse' = [httpResponse EXCEPT ![p] = Some(answer)]
       /\ IF answer.ok /\ answer.kind = "response"
          THEN ScriptOutput(p, [status |-> "success", data |-> answer.body])
          ELSE ScriptOutput(p, ErrorResponse(GraphErrorMessage(answer)))
  /\ UNCHANGED <<started, dates, now, disk, signin, args, credential, refresh, auth, grants>>

Scripts(p) ==
  \/ StartEmails(p)
  \/ StartCalendar(p)
  \/ EmailsMain(p)
  \/ ensureAuth(p)
  \/ ScriptDispatch(p)
  \/ ScriptRequest(p)

\* ------------------------------------------------- calendar.ts: parseDate
\* A Date is held by its local fields: year, month (0..11), day of the month
\* and the milliseconds since local midnight. Local time is UTC, so no day is
\* shorter or longer than 24 hours.
IsLeapYear(y) == (y % 4 = 0 /\ y % 100 # 0) \/ y % 400 = 0

DaysInMonth(y, m) ==
  IF m = 1 THEN (IF IsLeapYear(y) THEN 29 ELSE 28)
  ELSE IF m \in {3, 5, 8, 10} THEN 30
  ELSE 31

\* ECMAScript DayFromYear: the day number of 1 January of year y
DayFromYear(y) ==
  365 * (y - 1970) + ((y - 1969) \div 4) - ((y - 1901) \div 100) + ((y - 1601) \div 400)

RECURSIVE DaysBeforeMonth(_, _)
DaysBeforeMonth(y, m) ==
  IF m = 0 THEN 0 ELSE DaysBeforeMonth(y, m - 1) + DaysInMonth(y, m - 1)

\* ECMAScript MakeDay: months beyond 11 carry into the year, days beyond the
\* end of the month carry into the following months
MakeDay(year, month, date) ==
  LET ym == year + (month \div 12)
      mn == month % 12
  IN DayFromYear(ym) + DaysBeforeMonth(ym, mn) + date - 1

YearFromDay(t) ==
  CHOOSE y \in 1970..2400 : DayFromYear(y) <= t /\ t < DayFromYear(y + 1)

MonthFromDay(t) ==
  LET y == YearFromDay(t)
      d == t - DayFromYear(y)
  IN CHOOSE m \in 0..11 :
       DaysBeforeMonth(y, m) <= d /\ d < DaysBeforeMonth(y, m) + DaysInMonth(y, m)

\* the Date of day number t at `ms` after midnight
MakeDate(t, ms) ==
  LET y == YearFromDay(t)
      m == MonthFromDay(t)
  IN [year |-> y, month |-> m,
      day |-> t - DayFromYear(y) - DaysBeforeMonth(y, m) + 1, ms |-> ms]

\* new Date(NaN)
InvalidDate == [year |-> 0, month |-> 0, day |-> 0, ms |-> -1]

\* d.setDate(n), d.setMonth(n), d.setFullYear(n), d.setHours(h, m, s, ms); an
\* invalid Date stays invalid
setDate(d, n) ==
  IF d = InvalidDate THEN d ELSE MakeDate(MakeDay(d.year, d.month, n), d.ms)

\* setMonth that clamps the day to the last day of the target month
setMonthClamped(d, n) ==
  LET y == d.year + (n \div 12)
      m == n % 12
  IN [year |-> y, month |-> m,
      day |-> IF d.day > DaysInMonth(y, m) THEN DaysInMonth(y, m) ELSE d.day,
      ms |-> d.ms]

setMonth(d, n) ==
  IF d = InvalidDate THEN d ELSE MakeDate(MakeDay(d.year, n, d.day), d.ms)
setFullYear(d, n) ==
  IF d = InvalidDate THEN d ELSE MakeDate(MakeDay(n, d.month, d.day), d.ms)
setHours(d, h, m, sec, ms) ==
  IF d = InvalidDate THEN d
  ELSE [d EXCEPT !.ms = ((h * 60 + m) * 60 + sec) * MsPerSecond + ms]

\* setHours that leaves the time of day as it was
setHoursZeroKeepsTime(d) == d

setHoursZero(d) == setHours(d, 0, 0, 0, 0)

Digits == <<"0", "1", "2", "3", "4", "5", "6", "7", "8", "9">>
IsDigit(c) == \E i \in 1..10 : Digits[i] = c
DigitValue(c) == (CHOOSE i \in 1..10 : Digits[i] = c) - 1

\* parseInt of a sequence of digits
RECURSIVE parseInt(_)
parseInt(chars) ==
  IF chars = <<>> THEN 0
  ELSE 10 * parseInt(SubSeq(chars, 1, Len(chars) - 1)) + DigitValue(chars[Len(chars)])

\* String.prototype.toLowerCase, for the letters the inputs are made of
UpperCase == <<"A", "D", "M", "O", "R", "T", "W", "Y">>
LowerCase == <<"a", "d", "m", "o", "r", "t", "w", "y">>
ToLowerChar(c) ==
  IF \E i \in 1..Len(UpperCase) : UpperCase[i] = c
  THEN LowerCase[CHOOSE i \in 1..Len(UpperCase) : UpperCase[i] = c]
  ELSE c
toLowerCase(chars) == [i \in 1..Len(chars) |-> ToLowerChar(chars[i])]

\* lower.match(/^\+(\d+)([dmy])$/)
relativeMatch(lower) ==
  /\ Len(lower) >= 3
  /\ lower[1] = "+"
  /\ \A i \in 2..(Len(lower) - 1) : IsDigit(lower[i])
  /\ lower[Len(lower)] \in {"d", "m", "y"}

\* new Date(input) for a date written YYYY-MM-DD, else an invalid Date
NewDate(chars) ==
  IF /\ Len(chars) = 10
     /\ chars[5] = "-" /\ chars[8] = "-"
     /\ \A i \in {1, 2, 3, 4, 6, 7, 9, 10} : IsDigit(chars[i])
     /\ parseInt(SubSeq(chars, 6, 7)) \in 1..12
     /\ parseInt(SubSeq(chars, 9, 10)) \in
          1..DaysInMonth(parseInt(SubSeq(chars, 1, 4)), parseInt(SubSeq(chars, 6, 7)) - 1)
  THEN [year |-> parseInt(SubSeq(chars, 1, 4)),
        month |-> parseInt(SubSeq(chars, 6, 7)) - 1,
        day |-> parseInt(SubSeq(chars, 9, 10)), ms |-> 0]
  ELSE InvalidDate

parseDate(chars, base) ==
  LET lower == toLowerCase(chars) IN
  IF lower = <<"t", "o", "d", "a", "y">> THEN setHoursZero(base)
  ELSE IF lower = <<"t", "o", "m", "o", "r", "r", "o", "w">>
  THEN setHoursZero(setDate(base, base.day + 1))
  ELSE IF relativeMatch(lower)
  THEN LET amount == parseInt(SubSeq(lower, 2, Len(lower) - 1))
           unit == lower[Len(lower)]
       IN IF unit = "d" THEN setDate(base, base.day + amount)
          ELSE IF unit = "m" THEN setMonth(base, base.month + amount)
          ELSE setFullYear(base, base.year + amount)
  ELSE NewDate(chars)

\* the end of the range resolved against the clock instead of the start date
DateRangeEndFromNow(command, start, end, clock) ==
  IF command = "today"
  THEN [startDate |-> setHoursZero(clock), endDate |-> setHours(clock, 23, 59, 59, 999)]
  ELSE IF command = "week"
  THEN [startDate |-> setHoursZero(clock), endDate |-> setDate(clock, clock.day + 7)]
  ELSE [startDate |-> IF start # <<>> THEN parseDate(start, clock) ELSE clock,
        endDate |-> IF end # <<>> THEN parseDate(end, clock)
                    ELSE parseDate(<<"+", "3", "0", "d">>, clock)]

\* calendar main: the date range of the command; an empty --start or --end
\* counts as absent
DateRange(command, start, end, clock) ==
  IF command = "today"
  THEN [startDate |-> setHoursZero(clock), endDate |-> setHours(clock, 23, 59, 59, 999)]
  ELSE IF command = "week"
  THEN [startDate |-> setHoursZero(clock), endDate |-> setDate(clock, clock.day + 7)]
  ELSE LET first == IF start # <<>> THEN parseDate(start, clock) ELSE clock
       IN [startDate |-> first,
           endDate |-> IF end # <<>> THEN parseDate(end, first)
                       ELSE parseDate(<<"+", "3", "0", "d">>, first)]

\* one script invocation
Invocation(p) ==
  \/ Reset(p)
  \/ CheckAuth(p)
  \/ CheckAuthComplete(p)
  \/ Auth(p)
  \/ Scripts(p)

\* the process slot used when invocations run one after another
Main == "p1"

\* invocations run one after another (the documented, supported use)
Next ==
  \/ Tick
  \/ UserSignsIn
  \/ Invocation(Main)

Spec == Init /\ [][Next]_vars

\* two invocations of the scripts that write the credential file (check-auth
\* and auth) run as separate OS processes at the same time
ConcurrentNext ==
  \/ UserSignsIn
  \/ \E p \in Procs : CheckAuth(p) \/ Auth(p)

\* the two run within one clock tick, before or after the stored credentials
\* have expired
ConcurrentInit ==
  /\ now \in {0, 2 * TickMs}
  /\ InitProcesses
  /\ NoDates

ConcurrentSpec == ConcurrentInit /\ [][ConcurrentNext]_vars

\* the base dates and inputs parseDate is called with
BaseDates ==
  { [year |-> y, month |-> m, day |-> d, ms |-> t] :
      y \in {2023, 2024}, m \in {0, 1, 7, 11}, d \in {1, 28, 29, 30, 31},
      t \in {0, 45296789} }

\* the decimal digits of a natural number
RECURSIVE DigitsOf(_)
DigitsOf(n) ==
  IF n < 10 THEN <<Digits[n + 1]>> ELSE DigitsOf(n \div 10) \o <<Digits[(n % 10) + 1]>>

Amounts == {0, 1, 2, 7, 11, 12, 13, 30, 31, 366}
Units == {"d", "m", "y", "D", "M", "Y"}

RelativeInput(n, u) == <<"+">> \o DigitsOf(n) \o <<u>>

DateInputs ==
  { RelativeInput(n, u) : n \in Amounts, u \in Units }
  \cup { <<"t", "o", "d", "a", "y">>, <<"T", "o", "d", "a", "y">>,
         <<"t", "o", "m", "o", "r", "r", "o", "w">>,
         <<"T", "O", "M", "O", "R", "R", "O", "W">>,
         <<"2", "0", "2", "4", "-", "0", "2", "-", "2", "9">>,
         <<"+", "d">>, <<"7", "d">> }

DateInit ==
  /\ now = 0
  /\ InitProcesses
  /\ store = <<>>
  /\ \E b \in BaseDates :
       /\ b.day <= DaysInMonth(b.year, b.month)
       /\ baseDate = Some(b)
  /\ input \in DateInputs
  /\ parsed = Absent
  /\ NoRange

\* parseDate(input, baseDate): the base is copied, never changed
ParseDateCall ==
  /\ parsed = Absent
  /\ parsed' = Some(parseDate(input, baseDate[1]))
  /\ UNCHANGED <<baseDate, input, range>>
  /\ UNCHANGED <<started, now, disk, signin, pc, args, credential, refresh, auth,
                 console, traffic>>

DateNext == ParseDateCall

DateSpec == DateInit /\ [][DateNext]_vars

\* the commands of calendar and the values --start and --end are given
RangeCommands == {"list", "view", "search", "today", "week"}
RangeInputs ==
  { <<>>,
    <<"t", "o", "d", "a", "y">>,
    <<"t", "o", "m", "o", "r", "r", "o", "w">>,
    <<"+", "7", "d">>,
    <<"+", "1", "m">>,
    <<"2", "0", "2", "4", "-", "0", "2", "-", "2", "9">>,
    <<"7", "d">> }

RangeInit ==
  /\ now = 0
  /\ InitProcesses
  /\ store = <<>>
  /\ baseDate = Absent
  /\ input = <<>>
  /\ parsed = Absent
  /\ \E b \in BaseDates :
       /\ b.day <= DaysInMonth(b.year, b.month)
       /\ nowDate = Some(b)
  /\ rangeArgs \in [command : RangeCommands, start : RangeInputs, end : RangeInputs]
  /\ startDate = Absent
  /\ endDate = Absent

\* calendar main: startDate and endDate are determined from the command
ResolveRange ==
  /\ startDate = Absent
  /\ LET r == DateRange(rangeArgs.command, rangeArgs.start, rangeArgs.end, nowDate[1])
     IN /\ startDate' = Some(r.startDate)
        /\ endDate' = Some(r.endDate)
  /\ UNCHANGED <<nowDate, rangeArgs, baseDate, input, parsed>>
  /\ UNCHANGED <<started, now, disk, signin, pc, args, credential, refresh, auth,
                 console, traffic>>

RangeNext == ResolveRange

RangeSpec == RangeInit /\ [][RangeNext]_vars

\* ------------------------------------------------------------------ properties
\* reading what a process printed
HasField(json, key) == \E i \in 1..Len(json) : json[i][1] = key
Field(json, key) == json[CHOOSE i \in 1..Len(json) : json[i][1] = key][2]
Finished(p, name) == script[p] = name /\ pc[p] = "done"

\* check-auth printed status needs-auth with a non-empty reason
NeedsAuthPrinted(p) ==
  IF values[p].json
  THEN /\ Len(out[p]) = 1
       /\ LET json == out[p][1][2] IN
            /\ Field(json, "status") = "needs-auth"
            /\ HasField(json, "error")
            /\ Field(json, "error") # ""
  ELSE /\ Len(out[p]) = 2
       /\ out[p][1] = <<"Auth status: Authentication required">>
       /\ out[p][2][1] = "Reason: "
       /\ out[p][2][2] # ""

\* C1: the expiry test that check-auth and check-auth-complete branch on is
\* true exactly when the stored expiresAt is not later than the clock reading:
\* check-auth-complete exits 0, and check-auth takes its unexpired branch, if
\* and only if expiresAt is strictly later than the clock at the test.
C1_ExpiryBoundary ==
  [][\A p \in Procs :
       /\ (pc[p] = "cc_check" /\ pc'[p] = "done")
            => (exitCode'[p] = 0 <=> ParseISO(credential[p][1].expiresAt) > now)
       /\ (pc[p] = "ca_check" /\ pc'[p] # "ca_check")
            => (pc'[p] = "ca_valid" <=> ParseISO(credential[p][1].expiresAt) > now)]_vars

\* a check made at the very instant of expiry found the credential expired
C1_Witness ==
  \E p \in Procs :
    /\ Finished(p, "check-auth-complete")
    /\ credential[p] # Absent
    /\ ParseISO(credential[p][1].expiresAt) = now
    /\ exitCode[p] = 1

\* C2: after a granted refresh check-auth has exited 0 and the credential
\* stored for the profile carries the provider's access token and expiry, and
\* the provider's refresh token if one was issued, else the stored one.
C2_RefreshPersists ==
  \A p \in Procs :
    (Finished(p, "check-auth") /\ result[p] # Absent) =>
      LET r == result[p][1]
          old == credential[p][1]
          cur == store[values[p].profile]
      IN /\ exitCode[p] = 0
         /\ cur.accessToken = r.accessToken
         /\ (r.expiresOn # Absent => ParseISO(cur.expiresAt) = r.expiresOn[1])
         /\ cur.refreshToken =
              (IF r.refreshToken # None THEN r.refreshToken ELSE old.refreshToken)

\* a refresh whose grant carried no refresh token kept the stored one
C2_Witness ==
  \E p \in Procs :
    /\ Finished(p, "check-auth")
    /\ result[p] # Absent
    /\ result[p][1].refreshToken = None
    /\ result[p][1].expiresOn # Absent
    /\ store[values[p].profile].refreshToken = "rt0"
    /\ store[values[p].profile].accessToken = "at1"

\* C3: when the refresh grant throws or returns nothing, check-auth prints
\* status needs-auth with a non-empty reason and exits 1.
C3_RefreshFailureNeedsAuth ==
  \A p \in Procs :
    (Finished(p, "check-auth") /\ grants[p] # <<>> /\ result[p] = Absent) =>
      /\ exitCode[p] = 1
      /\ NeedsAuthPrinted(p)

\* the grant threw an Error whose message is empty
C3_Witness ==
  \E p \in Procs :
    /\ Finished(p, "check-auth")
    /\ grants[p] # <<>>
    /\ result[p] = Absent
    /\ values[p].json
    /\ Field(out[p][1][2], "error") = "Refresh failed: "

\* C4 as stated: a stored credential that expired one second ago and has a
\* refresh token is refreshed, and when the provider grants it check-auth
\* prints status valid with a strictly positive expiresIn and the provider's
\* or the previous account, and exits 0.
C4_PositiveExpiresIn ==
  \A p \in Procs :
    ( /\ Finished(p, "check-auth")
      /\ result[p] # Absent
      /\ values[p].json
      /\ ParseISO(credential[p][1].expiresAt) = now - MsPerSecond ) =>
      LET json == out[p][1][2] IN
        /\ exitCode[p] = 0
        /\ Field(json, "status") = "valid"
        /\ Field(json, "expiresIn") > 0
        /\ Field(json, "account") \in {result[p][1].account, credential[p][1].account}

\* C4, amended: after a granted refresh check-auth exits 0 and prints status
\* valid with the provider's or the previous account and an expiresIn that is
\* never negative, and is strictly positive exactly when the new expiry lies
\* at least one second after the clock reading taken for the output.
C4_RefreshedExpiresIn ==
  [][\A p \in Procs :
       (pc[p] = "ca_refreshed" /\ pc'[p] = "done") =>
         /\ exitCode'[p] = 0
         /\ ~values[p].json => out'[p][1] = <<"Auth status: Valid">>
         /\ values[p].json =>
              LET json == out'[p][1][2] IN
                /\ Field(json, "status") = "valid"
                /\ Field(json, "account") \in {result[p][1].account, credential[p][1].account}
                /\ Field(json, "expiresIn") >= 0
                /\ Field(json, "expiresIn") > 0
                     <=> ParseISO(newCredential[p][1].expiresAt) - now >= MsPerSecond]_vars

\* the credential expired one second ago was refreshed, and expiresIn is 0
C4_Witness ==
  \E p \in Procs :
    /\ Finished(p, "check-auth")
    /\ result[p] # Absent
    /\ values[p].json
    /\ ParseISO(credential[p][1].expiresAt) = now - MsPerSecond
    /\ exitCode[p] = 0
    /\ Field(out[p][1][2], "expiresIn") = 0

\* C5: check-auth for a profile with no stored credential prints needs-auth
\* and exits 1 at once, having sent no grant and written nothing to the store.
C5_NoCredentialNeedsAuth ==
  [][\A p \in Procs :
       ( /\ pc[p] = "ca_load"
         /\ pc'[p] # "ca_load"
         /\ values[p].profile \notin DOMAIN store ) =>
         /\ pc'[p] = "done"
         /\ exitCode'[p] = 1
         /\ NeedsAuthPrinted(p)'
         /\ grants'[p] = <<>>
         /\ store' = store]_vars

\* check-auth ran against a store without the profile
C5_Witness ==
  \E p \in Procs :
    /\ Finished(p, "check-auth")
    /\ credential[p] = Absent
    /\ values[p].profile \notin DOMAIN store
    /\ exitCode[p] = 1

\* C6: in the unexpired branch check-auth exits 0 and prints status valid with
\* expiresIn = floor((expiresAt - now) / 1000) for the clock reading of the
\* computation, and 0 when that reading is already past expiresAt.
C6_ValidExpiresIn ==
  [][\A p \in Procs :
       (pc[p] = "ca_valid" /\ pc'[p] = "done") =>
         /\ exitCode'[p] = 0
         /\ ~values[p].json => out'[p][1] = <<"Auth status: Valid">>
         /\ values[p].json =>
              LET json == out'[p][1][2]
                  e == Field(json, "expiresIn")
                  left == ParseISO(credential[p][1].expiresAt) - now
              IN /\ Field(json, "status") = "valid"
                 /\ e >= 0
                 /\ left >= 0 => (e * MsPerSecond <= left /\ left < (e + 1) * MsPerSecond)
                 /\ left < 0 => e = 0]_vars

\* half a second before expiry expiresIn is rounded down to 0
C6_Witness ==
  \E p \in Procs :
    /\ Finished(p, "check-auth")
    /\ grants[p] = <<>>
    /\ exitCode[p] = 0
    /\ values[p].json
    /\ Field(out[p][1][2], "expiresIn") = 0
    /\ now < ParseISO(credential[p][1].expiresAt)

\* C7: an expired credential without a refresh token is never renewed:
\* check-auth prints needs-auth and exits 1 without sending a grant or writing
\* the store, ensureAuth returns auth_required, and no grant is ever sent
\* without a refresh token.
C7_NoRefreshTokenNoRenewal ==
  [][\A p \in Procs :
       /\ ( /\ pc[p] = "ca_check"
            /\ pc'[p] # "ca_check"
            /\ now >= ParseISO(credential[p][1].expiresAt)
            /\ ~Truthy(credential[p][1].refreshToken) ) =>
            /\ pc'[p] = "done"
            /\ exitCode'[p] = 1
            /\ NeedsAuthPrinted(p)'
            /\ grants'[p] = <<>>
            /\ store' = store
       /\ ( /\ pc[p] = "ea_check"
            /\ pc'[p] # "ea_check"
            /\ now >= ParseISO(credential[p][1].expiresAt)
            /\ ~Truthy(credential[p][1].refreshToken) ) =>
            /\ auth'[p] # Absent
            /\ ~auth'[p][1].ok
            /\ auth'[p][1].response.status = "auth_required"
            /\ grants'[p] = <<>>
            /\ store' = store
       /\ \A i \in 1..Len(grants'[p]) : Truthy(grants'[p][i].refreshToken)]_vars

\* check-auth met an expired credential that has no refresh token
C7_Witness ==
  \E p \in Procs :
    /\ Finished(p, "check-auth")
    /\ credential[p] # Absent
    /\ ~Truthy(credential[p][1].refreshToken)
    /\ now >= ParseISO(credential[p][1].expiresAt)
    /\ exitCode[p] = 1
    /\ grants[p] = <<>>

\* C8: ensureAuth returns ok, with the token, only for a stored credential
\* that is unexpired or was just refreshed and persisted; it returns
\* auth_required exactly when there is no credential, or it is expired without
\* a refresh token, or the refresh failed.
C8_EnsureAuthDisposition ==
  [][\A p \in Procs :
       (auth[p] = Absent /\ auth'[p] # Absent) =>
         LET a == auth'[p][1]
             c == credential'[p]
         IN /\ a.ok <=>
                 /\ c # Absent
                 /\ \/ pc[p] = "ea_check" /\ now < ParseISO(c[1].expiresAt)
                    \/ pc[p] = "ea_save"
            /\ (a.ok /\ pc[p] = "ea_check") => a.token = c[1].accessToken
            /\ (a.ok /\ pc[p] = "ea_save") =>
                 /\ result[p] # Absent
                 /\ a.token = result[p][1].accessToken
                 /\ store'[values[p].profile].accessToken = a.token
            /\ ~a.ok =>
                 /\ a.response.status = "auth_required"
                 /\ \/ c = Absent
                    \/ /\ pc[p] = "ea_check"
                       /\ now >= ParseISO(c[1].expiresAt)
                       /\ ~Truthy(c[1].refreshToken)
                    \/ pc[p] = "ea_refresh" /\ result'[p] = Absent]_vars

\* emails got a token from a refresh that ensureAuth had just persisted
C8_Witness ==
  \E p \in Procs :
    /\ Finished(p, "emails")
    /\ auth[p] # Absent
    /\ auth[p][1].ok
    /\ result[p] # Absent
    /\ auth[p][1].token = store[values[p].profile].accessToken
    /\ exitCode[p] = 0

C10_RecoveryCompletes ==
  \A p \in Procs :
    (Finished(p, "check-auth-complete") /\ confirmed[p]) =>
      /\ exitCode[p] = 0
      /\ values[p].json => Field(out[p][1][2], "status") = "complete"

\* C11: the credential file is rewritten whole, without locking: a write by
\* check-auth or auth replaces the file by the document that process read
\* earlier with only its own profile changed, so whatever another process
\* wrote in between is lost and the last writer's document is what remains.
C11_LastWriterWins ==
  [][\A p \in Procs :
       LET profile == values[p].profile IN
       /\ (pc[p] \in {"ca_save", "au_save"} /\ pc'[p] # pc[p]) =>
            store' = [q \in (DOMAIN doc[p][1]) \cup {profile} |->
                        IF q = profile THEN newCredential[p][1] ELSE doc[p][1][q]]
       /\ (pc[p] = "au_delete" /\ pc'[p] # pc[p] /\ profile \in DOMAIN doc[p][1]) =>
            store' = [q \in (DOMAIN doc[p][1]) \ {profile} |-> doc[p][1][q]]]_vars

\* check-auth refreshed one profile and exited 0, auth wrote another profile
\* from a document read before that refresh, and the refresh is gone
C11_Witness ==
  \E p \in Procs, o \in Procs :
    /\ Finished(p, "check-auth")
    /\ exitCode[p] = 0
    /\ newCredential[p] # Absent
    /\ Finished(o, "auth")
    /\ values[o].profile # values[p].profile
    /\ (values[o].delete \/ newCredential[o] # Absent)
    /\ values[p].profile \in DOMAIN store
    /\ store[values[p].profile] = credential[p][1]
    /\ store[values[p].profile] # newCredential[p][1]

\* auth ran as `auth --delete --profile X`
DeleteRun(p) == script[p] = "auth" /\ values[p].delete /\ ~values[p].list

\* auth --list printed a block for profile q
Listed(p, q) == \E i \in 1..Len(out[p]) : out[p][i] = <<"  ", q>>

\* C12: auth --delete for a profile that is not in the store prints
\* "Profile not found", leaves the store as it was and ends with exit code 0.
C12_DeleteMissingProfile ==
  [][\A p \in Procs :
       ( /\ pc[p] = "au_delete"
         /\ pc'[p] # pc[p]
         /\ values[p].profile \notin DOMAIN store ) =>
           /\ out'[p] = << <<"Profile not found: ", values[p].profile>> >>
           /\ store' = store
           /\ pc'[p] = "done"
           /\ exitCode'[p] = 0]_vars

\* a delete of a missing profile has finished while another profile is stored
C12_Witness ==
  \E p \in Procs :
    /\ DeleteRun(p)
    /\ pc[p] = "done"
    /\ doc[p] # Absent
    /\ values[p].profile \notin DOMAIN doc[p][1]
    /\ DOMAIN store # {}
    /\ out[p] = << <<"Profile not found: ", values[p].profile>> >>
    /\ exitCode[p] = 0

\* C13: auth --delete for a stored profile removes it and nothing else and
\* reports the deletion; an auth --list that follows, with no authentication
\* or refresh in between, shows exactly the profiles still stored: not the
\* deleted one, and every other one.
C13_DeleteThenList ==
  /\ \A q \in deleted : q \notin DOMAIN store
  /\ \A p \in Procs :
       /\ (DeleteRun(p) /\ pc[p] = "done" /\ values[p].profile \in DOMAIN doc[p][1]) =>
            /\ out[p] = << <<"Deleted credential profile: ", values[p].profile>> >>
            /\ exitCode[p] = 0
            /\ store = [q \in (DOMAIN doc[p][1]) \ {values[p].profile} |-> doc[p][1][q]]
       /\ (Finished(p, "auth") /\ values[p].list) =>
            /\ exitCode[p] = 0
            /\ \A q \in Profiles : Listed(p, q) <=> q \in DOMAIN store
            /\ \A q \in deleted : ~Listed(p, q)

\* after one profile was deleted, --list showed the other one only
C13_Witness ==
  \E p \in Procs :
    /\ Finished(p, "auth")
    /\ values[p].list
    /\ deleted # {}
    /\ \E q \in Profiles : Listed(p, q)
    /\ \A q \in deleted : ~Listed(p, q)

\* the status check-auth-complete printed, in either output mode
CompleteStatusPrinted(p) ==
  IF values[p].json THEN Field(out[p][1][2], "status")
  ELSE IF out[p][1] = <<"Authentication complete!">> THEN "complete"
  ELSE IF out[p][1] = <<"Authentication still pending">> THEN "pending"
  ELSE "failed"

\* the account check-auth-complete printed, None when it printed none
CompleteAccountPrinted(p) ==
  IF values[p].json
  THEN IF HasField(out[p][1][2], "account") THEN Field(out[p][1][2], "account") ELSE None
  ELSE IF Len(out[p]) > 1 /\ out[p][2][1] = "Account: " THEN out[p][2][2] ELSE None

\* C14: check-auth-complete reports pending when no credential is stored for
\* the profile, complete with the stored account when the stored credential
\* is unexpired at the check, and failed when it is expired, with or without
\* a refresh token and without asking the provider; its exit code is 0
\* exactly when the status is complete.
C14_CompleteStatus ==
  [][\A p \in Procs :
       (script[p] = "check-auth-complete" /\ pc[p] # "done" /\ pc'[p] = "done") =>
         LET stored == getCredential(store, values[p].profile) IN
         /\ CompleteStatusPrinted(p)' =
              (IF stored = Absent THEN "pending"
               ELSE IF ParseISO(stored[1].expiresAt) > now THEN "complete"
               ELSE "failed")
         /\ CompleteStatusPrinted(p)' = "complete" =>
              CompleteAccountPrinted(p)' = stored[1].account
         /\ exitCode'[p] = 0 <=> CompleteStatusPrinted(p)' = "complete"
         /\ grants'[p] = <<>>
         /\ store' = store]_vars

\* an expired credential with a refresh token was reported as failed
C14_Witness ==
  \E p \in Procs :
    /\ Finished(p, "check-auth-complete")
    /\ credential[p] # Absent
    /\ Truthy(credential[p][1].refreshToken)
    /\ now >= ParseISO(credential[p][1].expiresAt)
    /\ CompleteStatusPrinted(p) = "failed"
    /\ exitCode[p] = 1

NoWaitRun(p) ==
  script[p] = "auth" /\ values[p].noWait /\ ~values[p].list /\ ~values[p].delete

\* the number of lines of `lines` that show the user code
DeviceCodePrints(lines) ==
  Cardinality({ i \in 1..Len(lines) :
    \/ lines[i][1] = "2. Enter code: " /\ lines[i][2] = DeviceCodeResponse.userCode
    \/ /\ lines[i][1] = "json"
       /\ HasField(lines[i][2], "userCode")
       /\ Field(lines[i][2], "userCode") = DeviceCodeResponse.userCode
       /\ Field(lines[i][2], "verificationUri") = DeviceCodeResponse.verificationUri
       /\ Field(lines[i][2], "expiresIn") = DeviceCodeResponse.expiresIn })

BlockingRun(p) ==
  /\ script[p] = "auth"
  /\ ~values[p].noWait /\ ~values[p].list /\ ~values[p].delete

\* C17: blocking auth exits 0 only after the device-code flow was granted,
\* and by then the credential built from the grant is stored under the
\* active profile: the provider's access token, and the provider's expiry
\* (one hour from the grant when it names none), so that a check made before
\* that expiry finds the credential unexpired.
C17_AuthPersistsBeforeExit ==
  \A p \in Procs :
    (BlockingRun(p) /\ (pc[p] = "au_saved" \/ (pc[p] = "done" /\ exitCode[p] = 0))) =>
      /\ result[p] # Absent
      /\ values[p].profile \in DOMAIN store
      /\ LET cur == store[values[p].profile]
             r == result[p][1]
         IN /\ cur = newCredential[p][1]
            /\ cur.accessToken = r.accessToken
            /\ r.expiresOn # Absent => ParseISO(cur.expiresAt) = r.expiresOn[1]
            /\ r.expiresOn = Absent => ParseISO(cur.expiresAt) > now
            /\ cur.clientId = values[p].clientId
            /\ cur.tenantId = values[p].tenantId

\* check-auth-complete, run after a blocking auth had stored a credential for
\* a profile, reported complete
C17_Witness ==
  \E p \in Procs :
    /\ Finished(p, "check-auth-complete")
    /\ credential[p] # Absent
    /\ credential[p][1].accessToken = "at1"
    /\ credential[p][1].scopes = <<>>
    /\ CompleteStatusPrinted(p) = "complete"
    /\ exitCode[p] = 0

\* the process printed a JSON object with status error
JsonErrorPrinted(p) ==
  \E i \in 1..Len(out[p]) :
    /\ out[p][i][1] = "json"
    /\ HasField(out[p][i][2], "status")
    /\ Field(out[p][i][2], "status") = "error"

\* C18: auth ends with exit code 0 after --list, after --delete and after a
\* successful authentication; when the device-code flow fails it ends with
\* exit code 1 and, in --json mode, has printed a JSON object with status
\* error.
C18_AuthExitCodes ==
  \A p \in Procs :
    (script[p] = "auth" /\ pc[p] = "done") =>
      /\ exitCode[p] \in {0, 1}
      /\ (values[p].list \/ values[p].delete) => exitCode[p] = 0
      /\ (BlockingRun(p) /\ result[p] # Absent) => exitCode[p] = 0
      /\ (BlockingRun(p) /\ result[p] = Absent) => exitCode[p] = 1
      /\ (exitCode[p] = 1 /\ values[p].json) => JsonErrorPrinted(p)

\* C19: once a Graph request of emails or calendar was answered with a
\* non-2xx status the invocation is over: it sent that one request only,
\* printed status error with a message made of the HTTP status and the
\* response body, and ended with exit code 1.
C19_GraphErrorNotRetried ==
  \A p \in Procs :
    /\ requests[p] <= 1
    /\ ( /\ script[p] \in {"emails", "calendar"}
         /\ httpResponse[p] # Absent
         /\ httpResponse[p][1].kind = "response"
         /\ ~httpResponse[p][1].ok ) =>
           /\ pc[p] = "done"
           /\ requests[p] = 1
           /\ out[p] = << <<"json",
                [status |-> "error",
                 error |-> "Graph API error: " \o ToString(httpResponse[p][1].status)
                           \o " - " \o httpResponse[p][1].body]>> >>
           /\ exitCode[p] = 1

\* calendar was answered 401 with a body and ended with status error
C19_Witness ==
  \E p \in Procs :
    /\ Finished(p, "calendar")
    /\ httpResponse[p] # Absent
    /\ httpResponse[p][1].status = 401
    /\ httpResponse[p][1].body # ""
    /\ requests[p] = 1
    /\ out[p][1][2].status = "error"
    /\ exitCode[p] = 1

\* the first day of the month after that of d, at the same time of day
NextMonthStart(d) ==
  IF d.month < 11 THEN [d EXCEPT !.month = d.month + 1, !.day = 1]
  ELSE [d EXCEPT !.year = d.year + 1, !.month = 0, !.day = 1]

\* n calendar days after d, at the same time of day, counted month by month
RECURSIVE AddDays(_, _)
AddDays(d, n) ==
  LET last == DaysInMonth(d.year, d.month) IN
  IF d.day + n <= last THEN [d EXCEPT !.day = d.day + n]
  ELSE AddDays(NextMonthStart(d), n - (last - d.day + 1))

\* d with its month field advanced by n: the same day of that month, or, when
\* that month is too short, as many days into the following month as the day
\* lies beyond its end
MonthsLater(d, n) ==
  LET t == d.year * 12 + d.month + n
      y == t \div 12
      m == t % 12
  IN IF d.day <= DaysInMonth(y, m)
     THEN [year |-> y, month |-> m, day |-> d.day, ms |-> d.ms]
     ELSE AddDays([year |-> y, month |-> m, day |-> DaysInMonth(y, m), ms |-> d.ms],
                  d.day - DaysInMonth(y, m))

\* C20: parseDate resolves +Nd to the base date N calendar days later at the
\* same time of day, +Nm to the base date with its month advanced by N and
\* +Ny to the base date with its year advanced by N, a day of the month that
\* the target month does not have spilling into the following month; the
\* unit letter is read case-insensitively.
C20_RelativeDates ==
  \A n \in Amounts, u \in Units :
    (parsed # Absent /\ input = RelativeInput(n, u)) =>
      parsed[1] = (IF u \in {"d", "D"} THEN AddDays(baseDate[1], n)
                   ELSE IF u \in {"m", "M"} THEN MonthsLater(baseDate[1], n)
                   ELSE MonthsLater(baseDate[1], 12 * n))

\* +1m from 31 January 2023, 12:34:56.789, gave 3 March at the same time
C20_Witness ==
  /\ parsed # Absent
  /\ input = <<"+", "1", "m">>
  /\ baseDate[1] = [year |-> 2023, month |-> 0, day |-> 31, ms |-> 45296789]
  /\ parsed[1] = [year |-> 2023, month |-> 2, day |-> 3, ms |-> 45296789]

\* the spellings of today and tomorrow among the inputs
TodayInputs == { <<"t", "o", "d", "a", "y">>, <<"T", "o", "d", "a", "y">> }
TomorrowInputs ==
  { <<"t", "o", "m", "o", "r", "r", "o", "w">>, <<"T", "O", "M", "O", "R", "R", "O", "W">> }

\* C21: parseDate resolves today, in any letter case, to the base date at
\* 00:00:00.000 and tomorrow to the day after the base date at 00:00:00.000,
\* and the base date it was given is the same after the call.
C21_TodayTomorrow ==
  [][(parsed = Absent /\ parsed' # Absent) =>
       /\ baseDate' = baseDate
       /\ input \in TodayInputs => parsed'[1] = [baseDate[1] EXCEPT !.ms = 0]
       /\ input \in TomorrowInputs =>
            parsed'[1] = [AddDays(baseDate[1], 1) EXCEPT !.ms = 0]]_vars

\* tomorrow from 31 December 2023, 12:34:56.789, gave 1 January 2024, 00:00
C21_Witness ==
  /\ parsed # Absent
  /\ input \in TomorrowInputs
  /\ baseDate[1] = [year |-> 2023, month |-> 11, day |-> 31, ms |-> 45296789]
  /\ parsed[1] = [year |-> 2024, month |-> 0, day |-> 1, ms |-> 0]

\* C22: the silent refresh of check-auth goes to the client id and tenant id
\* stored with the profile, to the shared default client id and the common
\* tenant only where the profile stores none, and the credential it writes
\* back carries the client id and tenant id that were stored before.
C22_ClientIdRemembered ==
  [][\A p \in Procs :
       LET profile == values[p].profile IN
       /\ (pc[p] = "ca_refresh" /\ pc'[p] # pc[p]) =>
            LET stored == store[profile]
                sent == grants'[p][Len(grants'[p])]
            IN /\ sent.clientId =
                    (IF stored.clientId # None THEN stored.clientId ELSE DEFAULT_CLIENT_ID)
               /\ sent.tenantId =
                    (IF stored.tenantId # None THEN stored.tenantId ELSE DEFAULT_TENANT)
       /\ (pc[p] = "ca_save" /\ pc'[p] # pc[p]) =>
            /\ store'[profile].clientId = store[profile].clientId
            /\ store'[profile].tenantId = store[profile].tenantId]_vars

\* the refresh of a profile registered with its own app went to that app and
\* tenant, and the refreshed credential still names them
C22_Witness ==
  \E p \in Procs :
    /\ Finished(p, "check-auth")
    /\ result[p] # Absent
    /\ credential[p][1].clientId = "app1"
    /\ grants[p][1].clientId = "app1"
    /\ grants[p][1].tenantId = "tenant1"
    /\ store[values[p].profile].accessToken = result[p][1].accessToken
    /\ store[values[p].profile].clientId = "app1"
    /\ store[values[p].profile].tenantId = "tenant1"

\* the state of the credential stored for profile q in `file` at time `clock`
CredState(q, file, clock) ==
  IF q \notin DOMAIN file THEN "NoCredential"
  ELSE IF ParseISO(file[q].expiresAt) > clock THEN "Valid"
  ELSE "Expired"

\* process p, working on profile q, takes the step that writes its credential
SaveStep(p, q, labels) ==
  values[p].profile = q /\ pc[p] \in labels /\ pc'[p] # pc[p]

\* Valid is entered only by the write of a completed interactive
\* authentication or of a successful silent refresh
ValidOnlyBySave ==
  \A q \in Profiles :
    (CredState(q, store, now) # "Valid" /\ CredState(q, store', now') = "Valid") =>
      \E p \in Procs :
        /\ SaveStep(p, q, {"au_save", "ca_save", "ea_save"})
        /\ result[p] # Absent
        /\ store'[q] = newCredential[p][1]

\* a credential is unexpired when it is granted (its expiry is the provider's,
\* or lies one hour ahead), and the stored credential of a profile comes to be
\* expired only as the clock passes its expiry: with the store untouched, or
\* as the write of a credential granted earlier
ExpiredOnlyByTime ==
  /\ \A p \in Procs :
       /\ (result'[p] # result[p] /\ result'[p] # Absent /\ result'[p][1].expiresOn # Absent)
            => result'[p][1].expiresOn[1] > now
       /\ (newCredential'[p] # newCredential[p] /\ newCredential'[p] # Absent) =>
            IF result'[p][1].expiresOn # Absent
            THEN ParseISO(newCredential'[p][1].expiresAt) = result'[p][1].expiresOn[1]
            ELSE ParseISO(newCredential'[p][1].expiresAt) > now
  /\ \A q \in Profiles :
       (CredState(q, store, now) # "Expired" /\ CredState(q, store', now') = "Expired") =>
         \/ CredState(q, store, now) = "Valid" /\ now' > now /\ store' = store
         \/ \E p \in Procs :
              /\ SaveStep(p, q, {"au_save", "ca_save", "ea_save"})
              /\ ParseISO(newCredential[p][1].expiresAt) <= now

\* check-auth or ensureAuth decides in this step that the credential of p's
\* profile needs interactive authentication
ReportsNeedsAuth(p) ==
  \/ pc[p] \in {"ca_check", "ca_refresh"} /\ pc'[p] = "done" /\ exitCode'[p] = 1
  \/ pc[p] \in {"ea_check", "ea_refresh"} /\ auth'[p] # Absent /\ ~auth'[p][1].ok

\* NeedsInteractiveAuth is entered from Expired, exactly when there is no
\* refresh token or the refresh fails, and without a write to the store
NeedsAuthOnlyFromExpired ==
  /\ \A p \in Procs :
       (pc[p] \in {"ca_check", "ca_refresh", "ea_check", "ea_refresh"} /\ pc'[p] # pc[p]) =>
         /\ ReportsNeedsAuth(p) <=>
              \/ /\ pc[p] \in {"ca_check", "ea_check"}
                 /\ now >= ParseISO(credential[p][1].expiresAt)
                 /\ ~Truthy(credential[p][1].refreshToken)
              \/ pc[p] \in {"ca_refresh", "ea_refresh"} /\ result'[p] = Absent
         /\ ReportsNeedsAuth(p) =>
              /\ CredState(values[p].profile, store, now) = "Expired"
              /\ values[p].profile \in needsAuth'
              /\ store' = store
  /\ \A q \in Profiles :
       (q \notin needsAuth /\ q \in needsAuth') =>
         \E p \in Procs : values[p].profile = q /\ ReportsNeedsAuth(p)

C24_StoreChangesOnlyByWriters ==
  [][/\ \A q \in Profiles :
          getCredential(store', q) # getCredential(store, q) =>
            \E p \in Procs :
              /\ values[p].profile = q
              /\ pc'[p] # pc[p]
              /\ \/ pc[p] \in {"au_save", "ca_save", "ea_save"} /\ result[p] # Absent
                 \/ pc[p] = "au_delete" /\ values[p].delete
     /\ \A p \in Procs :
          ( /\ pc'[p] # pc[p]
            /\ \/ script[p] = "check-auth" /\ pc[p] # "ca_save"
               \/ script[p] = "check-auth-complete"
               \/ script[p] = "auth" /\ (values[p].list \/ values[p].noWait) ) =>
            store' = store]_vars

\* a check-auth whose refresh was rejected has ended and the credential it
\* loaded is still the one stored
C24_Witness ==
  \E p \in Procs :
    /\ Finished(p, "check-auth")
    /\ grants[p] # <<>>
    /\ result[p] = Absent
    /\ exitCode[p] = 1
    /\ getCredential(store, values[p].profile) = credential[p]

\* what the inputs of a date range stand for, against the date `base`
Resolved(chars, base) ==
  IF chars = <<"2", "0", "2", "4", "-", "0", "2", "-", "2", "9">>
  THEN [year |-> 2024, month |-> 1, day |-> 29, ms |-> 0]
  ELSE IF base = InvalidDate \/ chars = <<"7", "d">> THEN InvalidDate
  ELSE IF chars \in TodayInputs THEN [base EXCEPT !.ms = 0]
  ELSE IF chars \in TomorrowInputs THEN [AddDays(base, 1) EXCEPT !.ms = 0]
  ELSE IF chars = <<"+", "7", "d">> THEN AddDays(base, 7)
  ELSE MonthsLater(base, 1)

\* Date a is later than Date b; no comparison with an invalid Date holds
DateLater(a, b) ==
  /\ a # InvalidDate
  /\ b # InvalidDate
  /\ \/ a.year > b.year
     \/ a.year = b.year /\ a.month > b.month
     \/ a.year = b.year /\ a.month = b.month /\ a.day > b.day
     \/ a.year = b.year /\ a.month = b.month /\ a.day = b.day /\ a.ms > b.ms

\* C25: for every calendar command but today and week the start of the range
\* is --start resolved against now, or now itself when --start is absent, and
\* the end is --end resolved against that start date, or the start date plus
\* 30 days when --end is absent; for today the range is midnight to
\* 23:59:59.999 of the current day and for week it is midnight today to now
\* plus 7 days; where the end is defaulted the start is never later than it.
C25_RangeResolution ==
  startDate # Absent =>
    LET clock == nowDate[1]
        first == startDate[1]
        last == endDate[1]
    IN /\ rangeArgs.command = "today" =>
            /\ first = [clock EXCEPT !.ms = 0]
            /\ last = [clock EXCEPT !.ms = 86399999]
       /\ rangeArgs.command = "week" =>
            /\ first = [clock EXCEPT !.ms = 0]
            /\ last = AddDays(clock, 7)
       /\ rangeArgs.command \notin {"today", "week"} =>
            /\ first = (IF rangeArgs.start = <<>> THEN clock
                        ELSE Resolved(rangeArgs.start, clock))
            /\ last = (IF rangeArgs.end = <<>>
                       THEN (IF first = InvalidDate THEN InvalidDate ELSE AddDays(first, 30))
                       ELSE Resolved(rangeArgs.end, first))
       /\ (rangeArgs.command \in {"today", "week"} \/ rangeArgs.end = <<>>) =>
            ~DateLater(first, last)

\* list --start +7d --end +1m on 28 January 2023: the range ends one month
\* after its start, on 4 March, not one month after now
C25_Witness ==
  /\ startDate # Absent
  /\ rangeArgs = [command |-> "list", start |-> <<"+", "7", "d">>, end |-> <<"+", "1", "m">>]
  /\ nowDate[1] = [year |-> 2023, month |-> 0, day |-> 28, ms |-> 45296789]
  /\ startDate[1] = [year |-> 2023, month |-> 1, day |-> 4, ms |-> 45296789]
  /\ endDate[1] = [year |-> 2023, month |-> 2, day |-> 4, ms |-> 45296789]

\* C26: the credential that check-auth builds from a granted refresh and then
\* stores is complete: its expiry is the provider's expiresOn or, when the
\* provider names none, one hour after the clock reading at which it is
\* built; its account is the provider's or else the previous one; its scopes
\* are the provider's when that list is not empty or else the previous ones.
C26_RefreshedComplete ==
  [][\A p \in Procs :
       /\ (pc[p] = "ca_build" /\ pc'[p] # pc[p]) =>
            LET r == result[p][1]
                old == credential[p][1]
                new == newCredential'[p][1]
            IN /\ ParseISO(new.expiresAt) =
                    (IF r.expiresOn # Absent THEN r.expiresOn[1]
                     ELSE now + DefaultLifetimeMs)
               /\ new.account = (IF r.account # None THEN r.account ELSE old.account)
               /\ new.account # None
               /\ new.scopes = (IF r.scopes # <<>> THEN r.scopes ELSE old.scopes)
               /\ new.accessToken = r.accessToken
       /\ (pc[p] = "ca_save" /\ pc'[p] # pc[p]) =>
            store'[values[p].profile] = newCredential[p][1]]_vars

\* a grant that named no expiry, no account and no scopes was stored with an
\* expiry one hour ahead and the previous account and scopes
C26_Witness ==
  \E p \in Procs :
    /\ Finished(p, "check-auth")
    /\ result[p] # Absent
    /\ result[p][1].expiresOn = Absent
    /\ result[p][1].account = None
    /\ result[p][1].scopes = <<>>
    /\ store[values[p].profile].accessToken = "at1"
    /\ store[values[p].profile].account = "alice"
    /\ store[values[p].profile].scopes = <<"Mail.Read">>
    /\ ParseISO(store[values[p].profile].expiresAt) >= DefaultLifetimeMs

\* process p takes the step that writes the credential file
WriteStep(p) ==
  /\ pc[p] \in {"ca_save", "ea_save", "au_save", "au_delete"}
  /\ pc'[p] # pc[p]

\* C27 as stated: the credential stored for a profile changes only in a write
\* of an operation that targets that profile, also when invocations run at
\* the same time.
C27_OtherProfilesUntouched ==
  [][\A q \in Profiles :
       getCredential(store', q) # getCredential(store, q) =>
         \E p \in Procs : WriteStep(p) /\ values[p].profile = q]_vars

\* C27, amended: the credential stored for a profile changes only in a write
\* of an operation that targets that profile, or in a write of an operation
\* on another profile that read the file before some other invocation wrote
\* it: that write puts the profile back to what the document read held.
C27_OtherProfilesKept ==
  [][\A q \in Profiles :
       getCredential(store', q) # getCredential(store, q) =>
         \E p \in Procs :
           /\ WriteStep(p)
           /\ \/ values[p].profile = q
              \/ /\ doc[p][1] # store
                 /\ getCredential(store', q) = getCredential(doc[p][1], q)]_vars

\* check-auth has just written the refreshed credential of one profile, and
\* the other profile still holds the credential a finished authentication
\* stored for it before check-auth read the file
C27_Witness ==
  \E p \in Procs, o \in Procs :
    /\ script[p] = "check-auth"
    /\ pc[p] = "ca_refreshed"
    /\ Finished(o, "auth")
    /\ newCredential[o] # Absent
    /\ values[o].profile # values[p].profile
    /\ {values[p].profile, values[o].profile} \subseteq DOMAIN store
    /\ store[values[p].profile] = newCredential[p][1]
    /\ values[o].profile \in DOMAIN doc[p][1]
    /\ doc[p][1][values[o].profile] = newCredential[o][1]
    /\ store[values[o].profile] = newCredential[o][1]

\* C28 as stated: a profile that auth --delete has reported as deleted is
\* absent from the store until an interactive authentication for it succeeds,
\* also when a check-auth that read its credential before the delete writes
\* afterwards.
C28_DeletedStaysAbsent ==
  \A q \in deleted : q \notin DOMAIN store

\* C28, amended: a profile that auth --delete reports as deleted is absent
\* from the store at that moment, and it comes back only by the write of an
\* interactive authentication for it, or by the write of an invocation that
\* read the file before the delete: a check-auth for that profile that had
\* loaded its credential and was granted a refresh, or a write for another
\* profile whose document still held it.
C28_DeletedComesBackOnlyByWrite ==
  [][\A q \in Profiles :
       /\ (q \notin deleted /\ q \in deleted') => q \notin DOMAIN store'
       /\ (q \in deleted /\ q \notin DOMAIN store /\ q \in DOMAIN store') =>
            \E p \in Procs :
              /\ WriteStep(p)
              /\ \/ pc[p] = "au_save" /\ values[p].profile = q /\ q \notin deleted'
                 \/ /\ pc[p] = "ca_save"
                    /\ values[p].profile = q
                    /\ credential[p] # Absent
                    /\ store'[q] = newCredential[p][1]
                 \/ /\ values[p].profile # q
                    /\ q \in DOMAIN doc[p][1]
                    /\ store'[q] = doc[p][1][q]]_vars

\* auth --delete reported the profile as deleted, and a check-auth that had
\* loaded its credential before has since written the refreshed credential
\* and exited 0: the profile is stored again
C28_Witness ==
  \E p \in Procs, o \in Procs :
    /\ DeleteRun(o)
    /\ pc[o] = "done"
    /\ out[o] = << <<"Deleted credential profile: ", values[o].profile>> >>
    /\ Finished(p, "check-auth")
    /\ values[p].profile = values[o].profile
    /\ exitCode[p] = 0
    /\ values[p].profile \in deleted
    /\ values[p].profile \in DOMAIN store
    /\ store[values[p].profile] = newCredential[p][1]

\* the status auth --list printed in the block of profile q
ListedStatus(lines, q) ==
  LET i == CHOOSE i \in 1..Len(lines) : lines[i] = <<"  ", q>>
      j == CHOOSE j \in (i + 1)..Len(lines) :
             /\ lines[j][1] = "    Status: "
             /\ \A k \in (i + 1)..(j - 1) : lines[k][1] # "    Status: "
  IN lines[j][2]

\* C29: auth --list prints EXPIRED for a profile if and only if isTokenExpired
\* holds of its credential at the same clock reading, that is if and only if
\* check-auth and check-auth-complete would treat it as expired, also when
\* expiresAt equals the clock reading.
C29_ListAgreesWithExpiryTest ==
  [][\A p \in Procs :
       (pc[p] = "au_main" /\ values[p].list /\ pc'[p] = "done") =>
         \A q \in DOMAIN store :
           /\ ListedStatus(out'[p], q) \in {"EXPIRED", "Valid"}
           /\ ListedStatus(out'[p], q) = "EXPIRED" <=> isTokenExpired(store[q], now)]_vars

\* the credential with its two tokens taken out
Redacted(cred) == [cred EXCEPT !.accessToken = "", !.refreshToken = None]

\* the token values that occur in stores and grants
TokenValues == {"at0", "at1", "rt0", "rt1"}

\* what check-auth and check-auth-complete print for a result
CheckAuthLines(vals, res) ==
  IF vals.json THEN << <<"json", CheckAuthJson(res)>> >> ELSE CheckAuthText(res)
CompleteLines(vals, res) ==
  IF vals.json THEN << <<"json", CompleteJson(res)>> >> ELSE CompleteText(res)

\* a JSON object with no member but status, expiresIn, account and error, none
\* of them a token
NoTokenEmitted(json) ==
  \A i \in 1..Len(json) :
    /\ json[i][1] \in {"status", "expiresIn", "account", "error"}
    /\ json[i][1] # "expiresIn" => json[i][2] \notin TokenValues

\* C30: what check-auth-complete prints, and what check-auth prints when the
\* stored credential is absent or unexpired, and their exit codes, are what
\* the same run prints for the store with every access token and refresh
\* token taken out; the JSON printed has no member but status, expiresIn,
\* account and error.
C30_OutputIgnoresTokens ==
  [][\A p \in Procs :
       LET stored == getCredential(store, values[p].profile) IN
       /\ (script[p] = "check-auth-complete" /\ pc[p] # "done" /\ pc'[p] = "done") =>
            LET res == IF stored = Absent
                       THEN [status |-> "pending", account |-> None,
                             error |-> "No credentials found yet"]
                       ELSE CompleteResult(Redacted(stored[1]), now)
            IN /\ out'[p] = CompleteLines(values[p], res)
               /\ exitCode'[p] = CompleteExitCode(res)
               /\ values[p].json => NoTokenEmitted(out'[p][1][2])
       /\ (script[p] = "check-auth" /\ pc[p] = "ca_load" /\ pc'[p] = "done") =>
            /\ stored = Absent
            /\ out'[p] = CheckAuthLines(values[p], NeedsAuth("No credentials found"))
            /\ exitCode'[p] = 1
       /\ (script[p] = "check-auth" /\ pc[p] = "ca_check" /\ pc'[p] # pc[p]
           /\ ParseISO(stored[1].expiresAt) > now) =>
            pc'[p] = CheckAuthBranch(Redacted(stored[1]), now)
       /\ (script[p] = "check-auth" /\ pc[p] = "ca_valid" /\ pc'[p] = "done") =>
            LET res == Valid(Redacted(stored[1]), now)
            IN /\ out'[p] = CheckAuthLines(values[p], res)
               /\ exitCode'[p] = 0
               /\ values[p].json => NoTokenEmitted(out'[p][1][2])]_vars

\* check-auth reported valid for a credential whose tokens are not those of
\* the initial stores
C30_Witness ==
  \E p \in Procs :
    /\ Finished(p, "check-auth")
    /\ grants[p] = <<>>
    /\ credential[p] # Absent
    /\ credential[p][1].accessToken = "at1"
    /\ credential[p][1].refreshToken = "rt1"
    /\ values[p].json
    /\ Field(out[p][1][2], "status") = "valid"
    /\ exitCode[p] = 0

====
